---------------------------- MODULE Spec2Model ----------------------------
(***************************************************************************)
(* A model of the financial simulation and tax engine of                   *)
(* FinancialAnalysisTool: the tax calculator (core/tax.py and              *)
(* utils/data_processor.py), the frequency normalizers (core/models.py,    *)
(* services/data_service.py, utils/data_processor.py), the per-owner       *)
(* income aggregation of the two processing pipelines, the depletion       *)
(* simulator, the asset projections and the sustainability analysis.       *)
(*                                                                         *)
(* Python floats are modelled as exact rationals [num, den] in lowest      *)
(* terms with den > 0, so that equalities such as 52/12 * x or             *)
(* (income - 100000) / 2 are decided exactly. The balances of the          *)
(* simulations are rounded to a fixed precision where they have no short   *)
(* exact form.                                                             *)
(***************************************************************************)
EXTENDS Integers, Sequences, FiniteSets

VARIABLES
    \* tax calculator: the last two calls (function called, argument, result)
    tax_fn, gross_income, breakdown, prev_fn, prev_income, prev_breakdown,
    \* calculate_uk_tax: the last call (function called, argument, result)
    uk_fn, uk_income, uk_tax,
    \* frequency normalizers: one row and what each normalizer returns for it
    row, monthly_ds, monthly_dp, monthly_item,
    \* processing pipelines: the loaded record set and what
    \* DataService.process_data and utils process_data return for it
    df, ds_result, dp_result,
    \* depletion simulator: one call of calculate_depletion_years, its
    \* arguments, its locals, where it is and what it returned;
    \* month_steps counts the executions of the monthly loop body
    depl_impl, capital, monthly_withdrawal, growth_rate, depl_pc, years,
    current_capital, month, month_steps, depl_result,
    \* projections: the asset rows, the horizon in years, and what
    \* FinanceService.calculate_projections,
    \* DataService.calculate_detailed_asset_projections and utils
    \* calculate_projections return for them
    proj_assets, proj_years, fs_projections, ds_projections, dp_projections,
    \* sustainability analysis: the assets table process_data returns, the
    \* monthly surplus, and what calculate_sustainability returns for them;
    \* the order its sort leaves the withdrawal assets in, and its working
    \* copy of the table when it returns
    assets_df, monthly_surplus, sustainability, sort_order, future_assets

taxVars == <<tax_fn, gross_income, breakdown, prev_fn, prev_income, prev_breakdown>>
ukVars == <<uk_fn, uk_income, uk_tax>>
freqVars == <<row, monthly_ds, monthly_dp, monthly_item>>
incVars == <<df, ds_result, dp_result>>
deplVars == <<depl_impl, capital, monthly_withdrawal, growth_rate, depl_pc, years,
              current_capital, month, month_steps, depl_result>>
projVars == <<proj_assets, proj_years, fs_projections, ds_projections, dp_projections>>
sustVars == <<assets_df, monthly_surplus, sustainability, sort_order, future_assets>>
vars == <<taxVars, ukVars, freqVars, incVars, deplVars, projVars, sustVars>>

\* what the operations of one component leave alone
notTax == <<ukVars, freqVars, incVars, deplVars, projVars, sustVars>>
notUk == <<taxVars, freqVars, incVars, deplVars, projVars, sustVars>>
notFreq == <<taxVars, ukVars, incVars, deplVars, projVars, sustVars>>
notInc == <<taxVars, ukVars, freqVars, deplVars, projVars, sustVars>>
notDepl == <<taxVars, ukVars, freqVars, incVars, projVars, sustVars>>
notProj == <<taxVars, ukVars, freqVars, incVars, deplVars, sustVars>>
notSust == <<taxVars, ukVars, freqVars, incVars, deplVars, projVars>>

-----------------------------------------------------------------------------
(* Exact arithmetic standing for Python's float arithmetic.                 *)

Abs(x) == IF x < 0 THEN -x ELSE x

RECURSIVE GCD(_, _)
GCD(a, b) == IF b = 0 THEN a ELSE GCD(b, a % b)

Rat(n, d) ==
    LET s == IF d < 0 THEN -1 ELSE 1
        g == GCD(Abs(n), Abs(d))
    IN  [num |-> (s * n) \div g, den |-> (s * d) \div g]

RInt(n) == [num |-> n, den |-> 1]
Zero == RInt(0)
RAdd(a, b) == Rat(a.num * b.den + b.num * a.den, a.den * b.den)
RSub(a, b) == Rat(a.num * b.den - b.num * a.den, a.den * b.den)
RMul(a, b) == Rat(a.num * b.num, a.den * b.den)
RDiv(a, b) == Rat(a.num * b.den, a.den * b.num)
RLt(a, b) == a.num * b.den < b.num * a.den
RLe(a, b) == a.num * b.den <= b.num * a.den
RMin(a, b) == IF RLt(b, a) THEN b ELSE a
RMax(a, b) == IF RLt(a, b) THEN b ELSE a

-----------------------------------------------------------------------------
(* config.py: TAX                                                           *)

PERSONAL_ALLOWANCE == 12570
BASIC_RATE_LIMIT == 50270
HIGHER_RATE_LIMIT == 125140
PERSONAL_ALLOWANCE_TAPER_THRESHOLD == 100000
BASIC_RATE == Rat(20, 100)
HIGHER_RATE == Rat(40, 100)
ADDITIONAL_RATE == Rat(45, 100)

-----------------------------------------------------------------------------
(* core/tax.py: get_tax_breakdown, statement by statement                   *)

\* a faulty variant of line 27: the reduction is not capped at the allowance
actual_tax_free_uncapped(g) ==
    LET tax_free == RInt(PERSONAL_ALLOWANCE)
        threshold == RInt(PERSONAL_ALLOWANCE_TAPER_THRESHOLD)
        reduction == RDiv(RSub(g, threshold), RInt(2))
    IN  IF RLt(threshold, g) THEN RSub(tax_free, reduction) ELSE tax_free

\* lines 25-28: the personal allowance after the taper
actual_tax_free(g) ==
    LET tax_free == RInt(PERSONAL_ALLOWANCE)
        threshold == RInt(PERSONAL_ALLOWANCE_TAPER_THRESHOLD)
        reduction == RMin(RDiv(RSub(g, threshold), RInt(2)), tax_free)
    IN  IF RLt(threshold, g) THEN RSub(tax_free, reduction) ELSE tax_free

\* lines 30, 41: remaining_income after the allowance is taken off
remaining_after_allowance(g) == RSub(g, RMax(Zero, actual_tax_free(g)))

\* a faulty variant of line 44: the allowance is not taken off the basic-rate limit
basic_rate_band_full_limit(g) ==
    RMin(RMax(Zero, RInt(BASIC_RATE_LIMIT)), remaining_after_allowance(g))

\* line 44
basic_rate_band(g) ==
    RMin(RMax(Zero, RSub(RInt(BASIC_RATE_LIMIT), actual_tax_free(g))),
         remaining_after_allowance(g))

\* lines 47, 50
higher_rate_band(g) ==
    RMin(RMax(Zero, RSub(RInt(HIGHER_RATE_LIMIT), RInt(BASIC_RATE_LIMIT))),
         RSub(remaining_after_allowance(g), basic_rate_band(g)))

\* line 53: remaining_income when the additional rate is reached
remaining_after_higher(g) ==
    RSub(RSub(remaining_after_allowance(g), basic_rate_band(g)), higher_rate_band(g))

\* a faulty variant of line 58: the additional-rate tax is assigned (=) to
\* total_tax instead of added (+=) to it
total_tax_additional_assigned(basic, higher, remaining) ==
    IF RLt(Zero, remaining) THEN RMul(remaining, ADDITIONAL_RATE)
    ELSE RAdd(RAdd(Zero, RMul(basic, BASIC_RATE)), RMul(higher, HIGHER_RATE))

\* lines 37, 46, 52, 56-58: total_tax accumulated over the three bands
total_tax(basic, higher, remaining) ==
    LET tax2 == RAdd(RAdd(Zero, RMul(basic, BASIC_RATE)), RMul(higher, HIGHER_RATE))
    IN  IF RLt(Zero, remaining) THEN RAdd(tax2, RMul(remaining, ADDITIONAL_RATE))
        ELSE tax2

get_tax_breakdown(g) ==
    [gross_income |-> g,
     tax_free_allowance |-> actual_tax_free(g),
     basic_rate_amount |-> basic_rate_band(g),
     higher_rate_amount |-> higher_rate_band(g),
     additional_rate_amount |->
         IF RLt(Zero, remaining_after_higher(g)) THEN remaining_after_higher(g) ELSE Zero,
     total_tax |-> total_tax(basic_rate_band(g), higher_rate_band(g),
                             remaining_after_higher(g))]

(* utils/data_processor.py: get_tax_breakdown, with its own literals        *)

dp_get_tax_breakdown(g) ==
    LET tax_free == RInt(12570)
        basic_rate_limit == RInt(50270)
        higher_rate_limit == RInt(125140)
        reduction == RMin(RDiv(RSub(g, RInt(100000)), RInt(2)), tax_free)
        dp_actual_tax_free == IF RLt(RInt(100000), g) THEN RSub(tax_free, reduction)
                              ELSE tax_free
        remaining0 == RSub(g, RMax(Zero, dp_actual_tax_free))
        dp_basic_rate_band ==
            RMin(RMax(Zero, RSub(basic_rate_limit, dp_actual_tax_free)), remaining0)
        remaining1 == RSub(remaining0, dp_basic_rate_band)
        dp_higher_rate_band ==
            RMin(RMax(Zero, RSub(higher_rate_limit, basic_rate_limit)), remaining1)
        remaining2 == RSub(remaining1, dp_higher_rate_band)
        tax2 == RAdd(RAdd(Zero, RMul(dp_basic_rate_band, Rat(20, 100))),
                     RMul(dp_higher_rate_band, Rat(40, 100)))
    IN  [gross_income |-> g,
         tax_free_allowance |-> dp_actual_tax_free,
         basic_rate_amount |-> dp_basic_rate_band,
         higher_rate_amount |-> dp_higher_rate_band,
         additional_rate_amount |-> IF RLt(Zero, remaining2) THEN remaining2 ELSE Zero,
         total_tax |-> IF RLt(Zero, remaining2)
                       THEN RAdd(tax2, RMul(remaining2, Rat(45, 100)))
                       ELSE tax2]

(* core/tax.py: calculate_uk_tax, which calls get_tax_breakdown             *)

calculate_uk_tax(annual_income) ==
    LET tax_breakdown == get_tax_breakdown(annual_income)
    IN  [total_tax |-> tax_breakdown.total_tax,
         tax_free_allowance |-> tax_breakdown.tax_free_allowance,
         original_tax_free_allowance |-> RInt(PERSONAL_ALLOWANCE),
         basic_rate_amount |-> tax_breakdown.basic_rate_amount,
         higher_rate_amount |-> tax_breakdown.higher_rate_amount,
         additional_rate_amount |-> tax_breakdown.additional_rate_amount]

(* utils/data_processor.py: calculate_uk_tax, statement by statement        *)

dp_calculate_uk_tax(annual_income) ==
    LET tax_free == RInt(12570)
        basic_rate_limit == RInt(50270)
        higher_rate_limit == RInt(125140)
        original_tax_free == tax_free
        reduction == RMin(RDiv(RSub(annual_income, RInt(100000)), RInt(2)), tax_free)
        dp_actual_tax_free == IF RLt(RInt(100000), annual_income)
                              THEN RSub(tax_free, reduction)
                              ELSE tax_free
        \* line 395
        remaining0 == RMax(Zero, RSub(annual_income, dp_actual_tax_free))
        dp_basic_rate_band ==
            RMin(RMax(Zero, RSub(basic_rate_limit, dp_actual_tax_free)), remaining0)
        remaining1 == RSub(remaining0, dp_basic_rate_band)
        dp_higher_rate_band ==
            RMin(RMax(Zero, RSub(higher_rate_limit, basic_rate_limit)), remaining1)
        remaining2 == RSub(remaining1, dp_higher_rate_band)
        tax2 == RAdd(RAdd(Zero, RMul(dp_basic_rate_band, Rat(20, 100))),
                     RMul(dp_higher_rate_band, Rat(40, 100)))
    IN  [total_tax |-> IF RLt(Zero, remaining2)
                       THEN RAdd(tax2, RMul(remaining2, Rat(45, 100)))
                       ELSE tax2,
         tax_free_allowance |-> dp_actual_tax_free,
         original_tax_free_allowance |-> original_tax_free,
         basic_rate_amount |-> dp_basic_rate_band,
         higher_rate_amount |-> dp_higher_rate_band,
         additional_rate_amount |-> IF RLt(Zero, remaining2) THEN remaining2 ELSE Zero]

-----------------------------------------------------------------------------
(* The tax calculator's callers: a caller calls one of the two              *)
(* get_tax_breakdown functions with an annual income >= 0; the state keeps  *)
(* the last two calls.                                                      *)

Near == 3
IncomeStep == 5000
MaxIncomeSteps == 30

\* the band boundaries of config.py and the incomes the specification names
TaxBoundaries == {0, PERSONAL_ALLOWANCE, BASIC_RATE_LIMIT, 60270,
                  PERSONAL_ALLOWANCE_TAPER_THRESHOLD, 125000, HIGHER_RATE_LIMIT}

Incomes ==
    {i \in {b + d : b \in TaxBoundaries, d \in (-Near)..Near} : i >= 0}
        \cup {k * IncomeStep : k \in 0..MaxIncomeSteps}

NoBreakdown == [gross_income |-> Zero, tax_free_allowance |-> Zero,
                basic_rate_amount |-> Zero, higher_rate_amount |-> Zero,
                additional_rate_amount |-> Zero, total_tax |-> Zero]

\* the results of the two functions over the incomes called with
CoreBreakdowns == [i \in Incomes |-> get_tax_breakdown(RInt(i))]
DpBreakdowns == [i \in Incomes |-> dp_get_tax_breakdown(RInt(i))]

TaxIdle ==
    /\ tax_fn = "none" /\ gross_income = Zero /\ breakdown = NoBreakdown
    /\ prev_fn = "none" /\ prev_income = Zero /\ prev_breakdown = NoBreakdown

CallGetTaxBreakdown(i) ==
    /\ tax_fn' = "core.tax"
    /\ gross_income' = RInt(i)
    /\ breakdown' = CoreBreakdowns[i]
    /\ prev_fn' = tax_fn /\ prev_income' = gross_income /\ prev_breakdown' = breakdown
    /\ UNCHANGED notTax

CallDpGetTaxBreakdown(i) ==
    /\ tax_fn' = "utils.data_processor"
    /\ gross_income' = RInt(i)
    /\ breakdown' = DpBreakdowns[i]
    /\ prev_fn' = tax_fn /\ prev_income' = gross_income /\ prev_breakdown' = breakdown
    /\ UNCHANGED notTax

TaxNext ==
    \/ \E i \in Incomes : CallGetTaxBreakdown(i)
    \/ \E i \in Incomes : CallDpGetTaxBreakdown(i)

(* The callers of calculate_uk_tax: a caller calls one of the two           *)
(* calculate_uk_tax functions with an annual income >= 0; the state keeps   *)
(* the last call.                                                           *)

NoUkTax == [total_tax |-> Zero, tax_free_allowance |-> Zero,
            original_tax_free_allowance |-> Zero,
            basic_rate_amount |-> Zero, higher_rate_amount |-> Zero,
            additional_rate_amount |-> Zero]

UkIdle == uk_fn = "none" /\ uk_income = Zero /\ uk_tax = NoUkTax

CallCalculateUkTax(i) ==
    /\ uk_fn' = "core.tax"
    /\ uk_income' = RInt(i)
    /\ uk_tax' = calculate_uk_tax(RInt(i))
    /\ UNCHANGED notUk

CallDpCalculateUkTax(i) ==
    /\ uk_fn' = "utils.data_processor"
    /\ uk_income' = RInt(i)
    /\ uk_tax' = dp_calculate_uk_tax(RInt(i))
    /\ UNCHANGED notUk

UkNext ==
    \/ \E i \in Incomes : CallCalculateUkTax(i)
    \/ \E i \in Incomes : CallDpCalculateUkTax(i)


-----------------------------------------------------------------------------
(* Strings are sequences of characters, so that str.lower() and the         *)
(* substring test 'week' in value are computed, not assumed.                *)

UpperCase == <<"A", "B", "C", "D", "E", "F", "G", "H", "I", "J", "K", "L", "M", "N", "O", "P", "Q", "R", "S", "T", "U", "V", "W", "X", "Y", "Z">>
LowerCase == <<"a", "b", "c", "d", "e", "f", "g", "h", "i", "j", "k", "l", "m", "n", "o", "p", "q", "r", "s", "t", "u", "v", "w", "x", "y", "z">>

lower_char(c) ==
    IF \E i \in 1..Len(UpperCase) : UpperCase[i] = c
    THEN LowerCase[CHOOSE i \in 1..Len(UpperCase) : UpperCase[i] = c]
    ELSE c

upper_char(c) ==
    IF \E i \in 1..Len(LowerCase) : LowerCase[i] = c
    THEN UpperCase[CHOOSE i \in 1..Len(LowerCase) : LowerCase[i] = c]
    ELSE c

\* str.lower()
lower(str) == [i \in 1..Len(str) |-> lower_char(str[i])]

\* sub in str
Contains(sub, str) ==
    \E i \in 1..(Len(str) - Len(sub) + 1) : SubSeq(str, i, i + Len(sub) - 1) = sub

-----------------------------------------------------------------------------
(* A row's Frequency cell: a string, NaN (an empty CSV cell, a float), or   *)
(* no Frequency key at all.                                                 *)

StrCell(chars) == [kind |-> "str", chars |-> chars]
NaNCell == [kind |-> "nan", chars |-> <<>>]
AbsentCell == [kind |-> "absent", chars |-> <<>>]

\* what a normalizer returns: a number, or the exception it raises
Value(v) == [kind |-> "value", value |-> v]
Raises(exc) == [kind |-> exc, value |-> Zero]
NotComputed == [kind |-> "none", value |-> Zero]

(* services/data_service.py: DataService.calculate_monthly_value            *)

ds_calculate_monthly_value(r) ==
    LET period_value == r.Period_Value
        \* row.get('Frequency', FINANCE['DEFAULT_FREQUENCY']), then str(frequency)
        frequency == IF r.Frequency.kind = "absent" THEN <<"M", "o", "n", "t", "h", "l", "y">>
                     ELSE IF r.Frequency.kind = "nan" THEN <<"n", "a", "n">>
                     ELSE r.Frequency.chars
        freq_lower == lower(frequency)
    IN  IF Contains(<<"w", "e", "e", "k">>, freq_lower)
        THEN Value(RDiv(RMul(period_value, RInt(52)), RInt(12)))
        ELSE IF Contains(<<"m", "o", "n", "t", "h">>, freq_lower) THEN Value(period_value)
        ELSE IF Contains(<<"y", "e", "a", "r">>, freq_lower) \/ Contains(<<"a", "n", "n", "u", "a", "l">>, freq_lower)
        THEN Value(RDiv(period_value, RInt(12)))
        ELSE IF Contains(<<"i", "n", "v", "e", "s", "t">>, freq_lower) THEN Value(Zero)
        ELSE Value(period_value)

(* utils/data_processor.py: calculate_monthly_value                         *)

dp_calculate_monthly_value(r) ==
    LET period_value == r.Period_Value
        \* row.get('Frequency', 'Monthly'), then str(frequency)
        frequency == IF r.Frequency.kind = "absent" THEN <<"M", "o", "n", "t", "h", "l", "y">>
                     ELSE IF r.Frequency.kind = "nan" THEN <<"n", "a", "n">>
                     ELSE r.Frequency.chars
        freq_lower == lower(frequency)
    IN  IF Contains(<<"w", "e", "e", "k">>, freq_lower)
        THEN Value(RDiv(RMul(period_value, RInt(52)), RInt(12)))
        ELSE IF Contains(<<"m", "o", "n", "t", "h">>, freq_lower) THEN Value(period_value)
        ELSE IF Contains(<<"y", "e", "a", "r">>, freq_lower) \/ Contains(<<"a", "n", "n", "u", "a", "l">>, freq_lower)
        THEN Value(RDiv(period_value, RInt(12)))
        ELSE IF Contains(<<"i", "n", "v", "e", "s", "t">>, freq_lower) THEN Value(Zero)
        ELSE Value(period_value)

(* core/models.py: Frequency and FinancialItem                              *)

\* Frequency.from_string
from_string(value) ==
    LET v == lower(value)
    IN  IF Contains(<<"w", "e", "e", "k">>, v) THEN "WEEKLY"
        ELSE IF Contains(<<"m", "o", "n", "t", "h">>, v) THEN "MONTHLY"
        ELSE IF Contains(<<"q", "u", "a", "r", "t", "e", "r">>, v) THEN "QUARTERLY"
        ELSE IF Contains(<<"y", "e", "a", "r">>, v) \/ Contains(<<"a", "n", "n", "u", "a", "l">>, v) THEN "ANNUALLY"
        ELSE IF Contains(<<"i", "n", "v", "e", "s", "t">>, v) THEN "INVESTMENT"
        ELSE "MONTHLY"

\* Frequency.get_monthly_factor
get_monthly_factor(self) ==
    IF self = "WEEKLY" THEN Rat(52, 12)
    ELSE IF self = "MONTHLY" THEN RInt(1)
    ELSE IF self = "QUARTERLY" THEN Rat(1, 3)
    ELSE IF self = "ANNUALLY" THEN Rat(1, 12)
    ELSE IF self = "INVESTMENT" THEN Zero
    ELSE RInt(1)

\* FinancialItem.__init__, lines 77-81: self.frequency. A string goes through
\* from_string; anything else (NaN) is stored as it is. A missing key is
\* 'Monthly' (from_dict, line 142).
item_frequency(cell) ==
    IF cell.kind = "str" THEN from_string(cell.chars)
    ELSE IF cell.kind = "absent" THEN from_string(<<"M", "o", "n", "t", "h", "l", "y">>)
    ELSE "nan"

\* FinancialItem.monthly_value of the item built from the row: a float has
\* no get_monthly_factor
item_monthly_value(r) ==
    IF item_frequency(r.Frequency) = "nan" THEN Raises("AttributeError")
    ELSE Value(RMul(r.Period_Value, get_monthly_factor(item_frequency(r.Frequency))))

-----------------------------------------------------------------------------
(* The rows the normalizers are applied to.                                 *)

MaxPeriodValue == 3

PeriodValues == {RInt(100 * k) : k \in 0..MaxPeriodValue}

\* every letter-case spelling of a word
CaseVariants(word) ==
    {[i \in 1..Len(word) |-> IF i \in S THEN upper_char(word[i]) ELSE word[i]] :
        S \in SUBSET (1..Len(word))}

CanonicalLabels == {<<"W", "e", "e", "k", "l", "y">>, <<"M", "o", "n", "t", "h", "l", "y">>, <<"Q", "u", "a", "r", "t", "e", "r", "l", "y">>, <<"A", "n", "n", "u", "a", "l", "l", "y">>, <<"I", "n", "v", "e", "s", "t", "m", "e", "n", "t">>}

FreeTextLabels ==
    {pre \o mid \o suf :
        pre \in {<<>>, <<"B", "i", "-">>, <<"M", "o", "n", "t", "h", "/">>},
        mid \in CaseVariants(<<"w", "e", "e", "k">>),
        suf \in {<<>>, <<"l", "y">>}}
    \cup {<<"m", "o", "n", "t", "h", "l", "y">>, <<"M", "O", "N", "T", "H", "L", "Y">>, <<"q", "u", "a", "r", "t", "e", "r", "l", "y">>, <<"Y", "e", "a", "r", "l", "y">>, <<"a", "n", "n", "u", "a", "l">>,
          <<"i", "n", "v", "e", "s", "t", "m", "e", "n", "t">>, <<"F", "o", "r", "t", "n", "i", "g", "h", "t", "l", "y">>, <<"D", "a", "i", "l", "y">>, <<"O", "n", "e", "-", "o", "f", "f">>, <<>>}

FrequencyCells ==
    {StrCell(l) : l \in CanonicalLabels \cup FreeTextLabels} \cup {NaNCell, AbsentCell}

Rows == [Period_Value : PeriodValues, Frequency : FrequencyCells]

NoRow == [Period_Value |-> Zero, Frequency |-> AbsentCell]

FreqIdle ==
    /\ row = NoRow
    /\ monthly_ds = NotComputed /\ monthly_dp = NotComputed /\ monthly_item = NotComputed

FreqInit ==
    /\ row \in Rows
    /\ monthly_ds = NotComputed /\ monthly_dp = NotComputed /\ monthly_item = NotComputed

\* df.apply(DataService.calculate_monthly_value, axis=1) on the row
DsCalculateMonthlyValue ==
    /\ monthly_ds = NotComputed
    /\ monthly_ds' = ds_calculate_monthly_value(row)
    /\ UNCHANGED <<row, monthly_dp, monthly_item, notFreq>>

\* df.apply(calculate_monthly_value, axis=1) on the row
DpCalculateMonthlyValue ==
    /\ monthly_dp = NotComputed
    /\ monthly_dp' = dp_calculate_monthly_value(row)
    /\ UNCHANGED <<row, monthly_ds, monthly_item, notFreq>>

\* Income(...) / Expense(...) built from the row, then item.monthly_value
ItemMonthlyValue ==
    /\ monthly_item = NotComputed
    /\ monthly_item' = item_monthly_value(row)
    /\ UNCHANGED <<row, monthly_ds, monthly_dp, notFreq>>

FreqNext == DsCalculateMonthlyValue \/ DpCalculateMonthlyValue \/ ItemMonthlyValue

-----------------------------------------------------------------------------
(* The per-owner income summary of the two processing pipelines.            *)

RECURSIVE RSum(_)
\* sum(...) / Series.sum()
RSum(values) == IF values = <<>> THEN Zero ELSE RAdd(Head(values), RSum(Tail(values)))

\* the owners appearing in a sequence of records
OwnersOf(records) == {records[i].Owner : i \in 1..Len(records)}

\* Series.str.lower() of the Type column
type_lower(t) ==
    IF t = "Income" THEN "income" ELSE IF t = "Asset" THEN "asset"
    ELSE IF t = "Expense" THEN "expense" ELSE t

(* core/income.py: Income, IncomeSource                                     *)

\* FinancialItem.__init__, lines 84-87: a 'Taxable' string as a bool
item_taxable(taxable) == taxable \in {"yes", "true", "1", "y"}

\* FinancialItem.annual_value of the Income built from a row
item_annual_value(r) == RMul(item_monthly_value(r).value, RInt(12))

\* IncomeSource.from_dataframe: the rows of type income
income_rows(records) == SelectSeq(records, LAMBDA r : type_lower(r.Type) = "income")

\* item.annual_value for item in ...
annual_values(items) == [i \in 1..Len(items) |-> item_annual_value(items[i])]

\* IncomeSource.get_taxable_annual
get_taxable_annual(items, owner) ==
    RSum(annual_values(
             SelectSeq(items, LAMBDA r : r.Owner = owner /\ item_taxable(r.Taxable))))

\* IncomeSource.get_nontaxable_annual
get_nontaxable_annual(items, owner) ==
    RSum(annual_values(
             SelectSeq(items, LAMBDA r : r.Owner = owner /\ ~item_taxable(r.Taxable))))

\* IncomeSource.calculate_tax, and the net_income calculate_income_summary adds
calculate_tax(items, owner) ==
    LET taxable_income == get_taxable_annual(items, owner)
        tax_details == get_tax_breakdown(taxable_income)
        tax == tax_details.total_tax
        net_taxable_income == RSub(taxable_income, tax)
        non_taxable_income == get_nontaxable_annual(items, owner)
    IN  [taxable_income |-> taxable_income,
         tax |-> tax,
         net_taxable_income |-> net_taxable_income,
         non_taxable_income |-> non_taxable_income,
         net_income |-> RAdd(net_taxable_income, non_taxable_income),
         tax_details |-> tax_details]

\* IncomeSource.calculate_income_summary
calculate_income_summary(items) ==
    [owner \in OwnersOf(items) |-> calculate_tax(items, owner)]

RECURSIVE total_net_income_of(_, _)
\* sum(summary['net_income'] for summary in income_summary.values())
total_net_income_of(summary, owners) ==
    IF owners = {} THEN Zero
    ELSE LET o == CHOOSE x \in owners : TRUE
         IN  RAdd(summary[o].net_income, total_net_income_of(summary, owners \ {o}))

Returned(summary) ==
    [kind |-> "value", income_summary |-> summary,
     total_net_income |-> total_net_income_of(summary, DOMAIN summary)]
Failed(exc) == [kind |-> exc, income_summary |-> <<>>, total_net_income |-> Zero]
NotProcessed == [kind |-> "none", income_summary |-> <<>>, total_net_income |-> Zero]

(* convert_currency_to_float of the two pipelines. A monetary cell of the   *)
(* uploaded table is a number or a string.                                  *)

IsString(cell) == "chars" \in DOMAIN cell

Digits == <<"0", "1", "2", "3", "4", "5", "6", "7", "8", "9">>

RECURSIVE decimal(_)
\* the number a string of digits denotes
decimal(chars) ==
    IF chars = <<>> THEN 0
    ELSE 10 * decimal(SubSeq(chars, 1, Len(chars) - 1))
             + (CHOOSE d \in 0..9 : Digits[d + 1] = chars[Len(chars)])

\* float(str): a non-empty string of digits is its number, a string with
\* any other character raises ValueError (signs, points and exponents are
\* not in the cells modelled)
float(chars) ==
    IF chars # <<>> /\ \A i \in 1..Len(chars) : \E d \in 1..10 : Digits[d] = chars[i]
    THEN Value(RInt(decimal(chars)))
    ELSE Raises("ValueError")

RECURSIVE replace(_, _)
\* str.replace(old, '')
replace(chars, old) ==
    IF Len(chars) < Len(old) THEN chars
    ELSE IF SubSeq(chars, 1, Len(old)) = old
    THEN replace(SubSeq(chars, Len(old) + 1, Len(chars)), old)
    ELSE <<Head(chars)>> \o replace(Tail(chars), old)

\* the characters U+00A3 and U+00C2
PoundSign == "pound sign"
ACircumflex == "A circumflex"

\* data_service.py lines 86-94: a string that float() refuses is 0.0
ds_convert_currency_to_float(value) ==
    IF IsString(value)
    THEN LET parsed == float(replace(replace(value.chars, <<ACircumflex, PoundSign>>),
                                     <<",">>))
         IN  IF parsed.kind = "ValueError" THEN Value(Zero) ELSE parsed
    ELSE Value(value)

\* data_processor.py lines 4-8: the ValueError of float() is not caught
dp_convert_currency_to_float(value) ==
    IF IsString(value)
    THEN float(replace(replace(value.chars, <<PoundSign>>), <<",">>))
    ELSE Value(value)

(* services/data_service.py: DataService.process_data                       *)

\* validate_data, lines 75-77: the Period_Value column converted
validate_data(records) ==
    [i \in 1..Len(records) |->
        [records[i] EXCEPT !.Period_Value = ds_convert_currency_to_float(@).value]]

ds_process_data(records) ==
    LET items == income_rows(validate_data(records))
    IN  IF \E i \in 1..Len(items) : item_monthly_value(items[i]).kind # "value"
        THEN Failed("AttributeError")
        ELSE Returned(calculate_income_summary(items))

(* utils/data_processor.py: process_data, calculate_income_by_owner         *)

\* df['Monthly_Value'] of a row
dp_monthly(r) == dp_calculate_monthly_value(r).value

\* df[...]['Monthly_Value']
monthly_values(rows) == [i \in 1..Len(rows) |-> dp_monthly(rows[i])]

calculate_income_by_owner(records) ==
    LET owners == OwnersOf(SelectSeq(records, LAMBDA r : type_lower(r.Type) = "income"))
        annual(Keep(_)) ==
            RMul(RSum(monthly_values(SelectSeq(records, Keep))), RInt(12))
        entry(owner) ==
            LET taxable_income ==
                    annual(LAMBDA r : /\ type_lower(r.Type) = "income"
                                      /\ r.Owner = owner /\ r.Taxable = "yes")
                taxable_asset_income ==
                    annual(LAMBDA r : /\ type_lower(r.Type) = "asset"
                                      /\ r.Owner = owner /\ RLt(Zero, dp_monthly(r))
                                      /\ r.Taxable = "yes")
                total_taxable_income == RAdd(taxable_income, taxable_asset_income)
                tax_details == dp_get_tax_breakdown(total_taxable_income)
                tax == tax_details.total_tax
                net_taxable_income == RSub(total_taxable_income, tax)
                untaxed_income ==
                    annual(LAMBDA r : /\ type_lower(r.Type) = "income"
                                      /\ r.Owner = owner /\ r.Taxable # "yes")
                untaxed_asset_income ==
                    annual(LAMBDA r : /\ type_lower(r.Type) = "asset"
                                      /\ r.Owner = owner /\ RLt(Zero, dp_monthly(r))
                                      /\ r.Taxable # "yes")
                total_untaxed_income == RAdd(untaxed_income, untaxed_asset_income)
            IN  [taxable_income |-> total_taxable_income,
                 tax |-> tax,
                 net_taxable_income |-> net_taxable_income,
                 non_taxable_income |-> total_untaxed_income,
                 net_income |-> RAdd(net_taxable_income, total_untaxed_income),
                 tax_details |-> tax_details]
        joint_income ==
            annual(LAMBDA r : type_lower(r.Type) = "income" /\ r.Owner = "Joint")
        joint_asset_income ==
            annual(LAMBDA r : /\ type_lower(r.Type) = "asset" /\ r.Owner = "Joint"
                              /\ RLt(Zero, dp_monthly(r)))
        has_joint == RLt(Zero, joint_income) \/ RLt(Zero, joint_asset_income)
        total_joint_income == RAdd(joint_income, joint_asset_income)
        joint_entry ==
            [taxable_income |-> Zero,
             tax |-> Zero,
             net_taxable_income |-> Zero,
             non_taxable_income |-> total_joint_income,
             net_income |-> total_joint_income,
             tax_details |-> NoBreakdown]
    IN  [owner \in owners \cup (IF has_joint THEN {"Joint"} ELSE {}) |->
            IF owner = "Joint" /\ has_joint THEN joint_entry ELSE entry(owner)]

\* process_data, lines 183-194: the Period_Value column converted
clean_currency_values(records) ==
    [i \in 1..Len(records) |->
        [records[i] EXCEPT !.Period_Value = dp_convert_currency_to_float(@).value]]

dp_process_data(records) ==
    IF \E i \in 1..Len(records) :
           dp_convert_currency_to_float(records[i].Period_Value).kind # "value"
    THEN Failed("ValueError")
    ELSE Returned(calculate_income_by_owner(clean_currency_values(records)))

-----------------------------------------------------------------------------
(* The record sets the pipelines are run on.                                *)

MaxRecords == 2

Owners == {"Alice", "Joint"}
\* the Period_Value cells: numbers, a number written with a separator, and
\* a string that is no number
Amounts ==
    {RInt(0), RInt(2000), StrCell(<<"2", ",", "0", "0", "0">>), StrCell(<<"n", "/", "a">>)}

Records ==
    [Type : {"Income", "Asset"}, Owner : Owners, Period_Value : Amounts,
     Frequency : {StrCell(<<"M", "o", "n", "t", "h", "l", "y">>), StrCell(<<"A", "n", "n", "u", "a", "l", "l", "y">>)},
     Taxable : {"yes", "no"}]

IncIdle == df = <<>> /\ ds_result = NotProcessed /\ dp_result = NotProcessed

\* one more row of the uploaded table
LoadRow(r) ==
    /\ Len(df) < MaxRecords
    /\ ds_result = NotProcessed /\ dp_result = NotProcessed
    /\ df' = Append(df, r)
    /\ UNCHANGED <<ds_result, dp_result, notInc>>

DsProcessData ==
    /\ ds_result = NotProcessed
    /\ ds_result' = ds_process_data(df)
    /\ UNCHANGED <<df, dp_result, notInc>>

DpProcessData ==
    /\ dp_result = NotProcessed
    /\ dp_result' = dp_process_data(df)
    /\ UNCHANGED <<df, ds_result, notInc>>

IncNext ==
    \/ \E r \in Records : LoadRow(r)
    \/ DsProcessData
    \/ DpProcessData

-----------------------------------------------------------------------------
(* services/data_service.py: DataService.calculate_depletion_years, and     *)
(* utils/data_processor.py: calculate_depletion_years, which differs only   *)
(* in where max_years comes from. One step per statement of the loops.      *)

MAX_DEPLETION_YEARS == 100

Inf == [kind |-> "inf", value |-> Zero]

\* a faulty variant of line 213: the test is < instead of <=
no_withdrawal_strict(w) == RLt(w, Zero)

\* line 213: if monthly_withdrawal <= 0
no_withdrawal(w) == RLe(w, Zero)

\* a faulty variant of line 219: the quotient is capped at the horizon
zero_growth_years_capped(c, w) ==
    LET annual_withdrawal == RMul(w, RInt(12))
    IN  IF RLt(Zero, annual_withdrawal)
           /\ RLe(RDiv(c, annual_withdrawal), RInt(MAX_DEPLETION_YEARS))
        THEN Value(RDiv(c, annual_withdrawal))
        ELSE Inf

\* lines 218-219: the closed form for zero growth
zero_growth_years(c, w) ==
    LET annual_withdrawal == RMul(w, RInt(12))
    IN  IF RLt(Zero, annual_withdrawal)
        THEN Value(RDiv(c, annual_withdrawal))
        ELSE Inf

(* The balance of the simulation is a float: a product that has no short    *)
(* exact form is rounded, here to the nearest 1/Precision, and a balance    *)
(* above MaxBalance is kept as Beyond, a value above every balance, which   *)
(* growth takes to Beyond again.                                            *)

Precision == 100
MaxBalance == 1000000

Beyond == [num |-> 1, den |-> 0]

\* the nearest multiple of 1/Precision
nearest(x) ==
    LET whole == x.num \div x.den
        rest == x.num % x.den
    IN  Rat(whole * Precision + (2 * rest * Precision + x.den) \div (2 * x.den),
            Precision)

\* the float a product is stored as
fl(x) ==
    IF x.den = 0 THEN x
    ELSE IF x.num \div x.den >= MaxBalance THEN Beyond
    ELSE IF x.den <= Precision THEN x
    ELSE nearest(x)

\* data_service.py line 227, data_processor.py line 61
max_years == IF depl_impl = "DataService" THEN MAX_DEPLETION_YEARS ELSE 100

\* line 222
monthly_growth_rate == RDiv(growth_rate, RInt(12))

\* a faulty variant of line 229: the horizon is not tested
loop_continues_uncapped == RLt(Zero, current_capital)

\* line 229: while current_capital > 0 and years < max_years
loop_continues == RLt(Zero, current_capital) /\ years < max_years

\* a faulty variant of line 237: a balance of exactly 0 is not depleted
depleted_below_zero(balance) == RLt(balance, Zero)

\* line 237: if current_capital <= 0
depleted(balance) == RLe(balance, Zero)

\* lines 213-214: return float('inf')
DeplNoWithdrawal ==
    /\ depl_pc = "entry"
    /\ no_withdrawal(monthly_withdrawal)
    /\ depl_result' = Inf
    /\ depl_pc' = "done"
    /\ UNCHANGED <<depl_impl, capital, monthly_withdrawal, growth_rate, years,
                   current_capital, month, month_steps, notDepl>>

\* lines 217-219: the closed form for zero growth
DeplZeroGrowth ==
    /\ depl_pc = "entry"
    /\ ~no_withdrawal(monthly_withdrawal)
    /\ growth_rate = Zero
    /\ depl_result' = zero_growth_years(capital, monthly_withdrawal)
    /\ depl_pc' = "done"
    /\ UNCHANGED <<depl_impl, capital, monthly_withdrawal, growth_rate, years,
                   current_capital, month, month_steps, notDepl>>

\* lines 222-227: the locals of the simulation
DeplSimulate ==
    /\ depl_pc = "entry"
    /\ ~no_withdrawal(monthly_withdrawal)
    /\ growth_rate # Zero
    /\ years' = 0
    /\ current_capital' = capital
    /\ depl_pc' = "while"
    /\ UNCHANGED <<depl_impl, capital, monthly_withdrawal, growth_rate, month,
                   month_steps, depl_result, notDepl>>

\* line 229: while current_capital > 0 and years < max_years
DeplWhile ==
    /\ depl_pc = "while"
    /\ IF loop_continues
       THEN depl_pc' = "for" /\ month' = 0
       ELSE depl_pc' = "return" /\ month' = month
    /\ UNCHANGED <<depl_impl, capital, monthly_withdrawal, growth_rate, years,
                   current_capital, month_steps, depl_result, notDepl>>

\* lines 231-238: one pass of for _ in range(12), with its break
DeplMonth ==
    /\ depl_pc = "for"
    /\ LET grown == fl(RMul(current_capital, RAdd(RInt(1), monthly_growth_rate)))
           left == fl(RSub(grown, monthly_withdrawal))
       IN  /\ current_capital' = left
           /\ IF depleted(left) \/ month = 11
              THEN depl_pc' = "year_end" /\ month' = month
              ELSE depl_pc' = "for" /\ month' = month + 1
    /\ month_steps' = month_steps + 1
    /\ UNCHANGED <<depl_impl, capital, monthly_withdrawal, growth_rate, years,
                   depl_result, notDepl>>

\* line 240: years += 1
DeplYearEnd ==
    /\ depl_pc = "year_end"
    /\ years' = years + 1
    /\ depl_pc' = "while"
    /\ UNCHANGED <<depl_impl, capital, monthly_withdrawal, growth_rate,
                   current_capital, month, month_steps, depl_result, notDepl>>

\* line 242: return years if years < max_years else float('inf')
DeplReturn ==
    /\ depl_pc = "return"
    /\ depl_result' = IF years < max_years THEN Value(RInt(years)) ELSE Inf
    /\ depl_pc' = "done"
    /\ UNCHANGED <<depl_impl, capital, monthly_withdrawal, growth_rate, years,
                   current_capital, month, month_steps, notDepl>>

DeplNext ==
    \/ DeplNoWithdrawal
    \/ DeplZeroGrowth
    \/ DeplSimulate
    \/ DeplWhile
    \/ DeplMonth
    \/ DeplYearEnd
    \/ DeplReturn

(* The calls made.                                                          *)

MaxCapitalSteps == 6

\* small capitals, and large ones that last up to and beyond the horizon
Capitals == {RInt(100 * k) : k \in 0..MaxCapitalSteps}
                \cup {RInt(120000), RInt(240000)}
Withdrawals == {RInt(-100), Zero, RInt(100), RInt(1000)}

\* annual growth rates: some realistic ones, and coarse ones whose monthly
\* rate is a multiple of 1/2
FineGrowthRates == {Rat(-3, 100), Rat(5, 100), Rat(12, 100)}
CoarseGrowthRates == {RInt(-24), RInt(-12), RInt(-6), Zero, RInt(6), RInt(12)}

\* calls at 1.2% a year with 10 a month withdrawn, which deplete in the
\* 99th year (month 1185), in the 100th (month 1195) and after it
SlowCalls ==
    [capital : {RInt(6940), RInt(6971), RInt(7000)},
     monthly_withdrawal : {RInt(10)}, growth_rate : {Rat(12, 1000)}]

\* a call at 1200% a year whose balance is exactly 0 after the 12th month
\* (4096 - 2^n after n months)
TieCalls ==
    [capital : {RInt(4095)}, monthly_withdrawal : {RInt(4096)}, growth_rate : {RInt(12)}]

\* A simulated call is made with a coarse rate, or is one of the slow calls
\* or the tie call.
DepletionCalls ==
    {c \in [capital : Capitals, monthly_withdrawal : Withdrawals,
            growth_rate : FineGrowthRates \cup CoarseGrowthRates] :
        \/ RLe(c.monthly_withdrawal, Zero)
        \/ c.growth_rate \in CoarseGrowthRates}
      \cup SlowCalls \cup TieCalls

DeplIdle ==
    /\ depl_impl = "none" /\ capital = Zero /\ monthly_withdrawal = Zero
    /\ growth_rate = Zero /\ depl_pc = "idle" /\ years = 0 /\ current_capital = Zero
    /\ month = 0 /\ month_steps = 0 /\ depl_result = NotComputed

DeplInit ==
    /\ depl_impl \in {"DataService", "data_processor"}
    /\ \E c \in DepletionCalls :
           /\ capital = c.capital
           /\ monthly_withdrawal = c.monthly_withdrawal
           /\ growth_rate = c.growth_rate
    /\ depl_pc = "entry" /\ years = 0 /\ current_capital = Zero
    /\ month = 0 /\ month_steps = 0 /\ depl_result = NotComputed

-----------------------------------------------------------------------------
(* The asset projections: services/finance_service.py                       *)
(* FinanceService.calculate_projections (month-stepped),                    *)
(* services/data_service.py DataService.calculate_detailed_asset_projections*)
(* (year-stepped; utils/data_processor.py has the same function) and        *)
(* utils/data_processor.py calculate_projections (month-stepped).           *)
(* A projection is a dict: a function from keys to series.                  *)

\* f"{asset['Description']} ({asset['Owner']})"
asset_key(asset) == <<asset.Description, asset.Owner>>
MonthsKey == <<"months">>
YearsKey == <<"years">>
TotalKey == <<"Total Assets">>

\* DataService.parse_growth_rate of a numeric cell
parse_growth_rate(cell) == cell

\* current_value *= (1 + monthly_growth_rate)
grow(value, rate) == fl(RMul(value, RAdd(RInt(1), rate)))

\* a faulty variant of the withdrawal: the amount is added
withdraw_added(value, withdrawal) == fl(RAdd(value, withdrawal))

\* current_value -= monthly_withdrawal
withdraw(value, withdrawal) == fl(RSub(value, withdrawal))

\* list(range(n + 1))
range_list(n) == [i \in 1..(n + 1) |-> i - 1]

\* the assets in the order of iterrows(), a later row replacing an earlier
\* one with the same key
last_with_key(assets, key) ==
    assets[CHOOSE i \in 1..Len(assets) :
               /\ asset_key(assets[i]) = key
               /\ \A j \in (i + 1)..Len(assets) : asset_key(assets[j]) # key]
asset_keys(assets) == {asset_key(assets[i]) : i \in 1..Len(assets)}

RECURSIVE sum_at(_, _, _)
\* the elementwise sum of the series under the given keys, at one index
sum_at(projections, keys, i) ==
    IF keys = {} THEN Zero
    ELSE LET k == CHOOSE x \in keys : TRUE
         IN  RAdd(projections[k][i], sum_at(projections, keys \ {k}, i))

RECURSIVE month_values(_, _, _, _)
\* finance_service.py lines 53-61: the values appended for the next n months
month_values(current_value, rate, withdrawal, n) ==
    IF n = 0 THEN <<>>
    ELSE LET next_value == withdraw(grow(current_value, rate),
                                    withdrawal)
         IN  <<RMax(Zero, next_value)>>
                 \o month_values(next_value, rate, withdrawal, n - 1)

\* finance_service.py lines 41-61: the series of one asset
month_series(asset, withdrawal, months) ==
    LET rate == RDiv(parse_growth_rate(asset.Growth_Rate), RInt(12))
    IN  <<asset.Capital_Value>>
            \o month_values(asset.Capital_Value, rate, withdrawal, months)

\* FinanceService.calculate_projections
fs_calculate_projections(assets, years_arg) ==
    LET months == years_arg * 12
        series(key) ==
            LET asset == last_with_key(assets, key)
            IN  month_series(asset, ds_calculate_monthly_value(asset).value, months)
        per_asset == [key \in asset_keys(assets) |-> series(key)]
    IN  [key \in asset_keys(assets) \cup {MonthsKey, TotalKey} |->
            IF key = MonthsKey THEN range_list(months)
            ELSE IF key = TotalKey
            THEN [i \in 1..(months + 1) |-> sum_at(per_asset, asset_keys(assets), i)]
            ELSE per_asset[key]]

\* utils calculate_projections: no 'Total Assets' series is added
dp_calculate_projections(assets, years_arg) ==
    LET months == years_arg * 12
        series(key) ==
            LET asset == last_with_key(assets, key)
            IN  month_series(asset, dp_calculate_monthly_value(asset).value, months)
    IN  [key \in asset_keys(assets) \cup {MonthsKey} |->
            IF key = MonthsKey THEN range_list(months) ELSE series(key)]

RECURSIVE floored_months(_, _, _, _)
\* data_service.py lines 286-292: the balances of the next n months, each
\* floored at 0
floored_months(balance, rate, withdrawal, n) ==
    IF n = 0 THEN <<>>
    ELSE LET next_balance == RMax(Zero, withdraw(grow(balance, rate), withdrawal))
         IN  <<next_balance>> \o floored_months(next_balance, rate, withdrawal, n - 1)

\* data_service.py line 294: capital = current_capital, after the 12 months
year_of_months(balance, rate, withdrawal) ==
    floored_months(balance, rate, withdrawal, 12)[12]

\* data_service.py lines 281-297: the capital a year later
next_year(balance, withdrawal, annual_rate) ==
    IF RLt(Zero, withdrawal)
    THEN year_of_months(balance, RDiv(annual_rate, RInt(12)), withdrawal)
    ELSE grow(balance, annual_rate)

RECURSIVE yearly_values(_, _, _, _)
\* data_service.py lines 279-299: the values appended for the next n years
yearly_values(balance, withdrawal, annual_rate, n) ==
    IF n = 0 THEN <<>>
    ELSE LET c == next_year(balance, withdrawal, annual_rate)
         IN  <<c>> \o yearly_values(c, withdrawal, annual_rate, n - 1)

\* data_service.py lines 270-299: the series of one asset, whose
\* Monthly_Value column process_data has filled
year_series(asset, years_arg) ==
    <<asset.Capital_Value>>
        \o yearly_values(asset.Capital_Value, ds_calculate_monthly_value(asset).value,
                         parse_growth_rate(asset.Growth_Rate), years_arg)

\* DataService.calculate_detailed_asset_projections
calculate_detailed_asset_projections(assets, years_arg) ==
    LET per_asset == [key \in asset_keys(assets) |->
                         year_series(last_with_key(assets, key), years_arg)]
    IN  [key \in asset_keys(assets) \cup {YearsKey, TotalKey} |->
            IF key = YearsKey THEN range_list(years_arg)
            ELSE IF key = TotalKey
            THEN [i \in 1..(years_arg + 1) |-> sum_at(per_asset, asset_keys(assets), i)]
            ELSE per_asset[key]]

(* The projections asked for.                                               *)

MaxAssets == 2
MaxYears == 2

NotProjected == <<>>

AssetRows ==
    [Description : {"ISA", "Pension"}, Owner : {"Alice"},
     Capital_Value : {RInt(1000)},
     Period_Value : {RInt(0), RInt(100)},
     Frequency : {StrCell(<<"M", "o", "n", "t", "h", "l", "y">>)},
     Growth_Rate : {Zero, Rat(12, 100), RInt(-12)}]

ProjIdle ==
    /\ proj_assets = <<>> /\ proj_years = 0
    /\ fs_projections = NotProjected /\ ds_projections = NotProjected
    /\ dp_projections = NotProjected

ProjInit ==
    /\ proj_assets = <<>> /\ proj_years \in 0..MaxYears
    /\ fs_projections = NotProjected /\ ds_projections = NotProjected
    /\ dp_projections = NotProjected

\* one more asset row of the table
LoadAsset(r) ==
    /\ Len(proj_assets) < MaxAssets
    /\ fs_projections = NotProjected /\ ds_projections = NotProjected
    /\ dp_projections = NotProjected
    /\ proj_assets' = Append(proj_assets, r)
    /\ UNCHANGED <<proj_years, fs_projections, ds_projections, dp_projections, notProj>>

\* the entry points can be called again with the table they were called with
FsCalculateProjections ==
    /\ fs_projections' = fs_calculate_projections(proj_assets, proj_years)
    /\ UNCHANGED <<proj_assets, proj_years, ds_projections, dp_projections, notProj>>

DsCalculateDetailedAssetProjections ==
    /\ ds_projections' = calculate_detailed_asset_projections(proj_assets, proj_years)
    /\ UNCHANGED <<proj_assets, proj_years, fs_projections, dp_projections, notProj>>

DpCalculateProjections ==
    /\ dp_projections' = dp_calculate_projections(proj_assets, proj_years)
    /\ UNCHANGED <<proj_assets, proj_years, fs_projections, ds_projections, notProj>>

ProjNext ==
    \/ \E r \in AssetRows : LoadAsset(r)
    \/ FsCalculateProjections
    \/ DsCalculateDetailedAssetProjections
    \/ DpCalculateProjections

-----------------------------------------------------------------------------
(* The sustainability analysis: services/finance_service.py                 *)
(* FinanceService.calculate_sustainability; calculate_sustainability of     *)
(* app.py computes the same values and differs in the wording of the        *)
(* messages.                                                                *)

LONG_TERM_YEARS == 100

RECURSIVE months_until_break(_, _, _, _)
\* data_service.py lines 231-238: the balance after the for loop, run for at
\* most n months and left at the first balance <= 0
months_until_break(balance, rate, withdrawal, n) ==
    IF n = 0 THEN balance
    ELSE LET next_balance == withdraw(grow(balance, rate), withdrawal)
         IN  IF RLe(next_balance, Zero) THEN next_balance
             ELSE months_until_break(next_balance, rate, withdrawal, n - 1)

RECURSIVE simulated_years(_, _, _, _)
\* data_service.py lines 229-240: years when the while loop ends
simulated_years(balance, rate, withdrawal, years_done) ==
    IF RLt(Zero, balance) /\ years_done < MAX_DEPLETION_YEARS
    THEN LET next_balance == months_until_break(balance, rate, withdrawal, 12)
         IN  simulated_years(next_balance, rate, withdrawal, years_done + 1)
    ELSE years_done

\* DataService.calculate_depletion_years, as a function of its arguments
calculate_depletion_years(capital_value, withdrawal, annual_rate) ==
    IF no_withdrawal(withdrawal) THEN Inf
    ELSE IF annual_rate = Zero THEN zero_growth_years(capital_value, withdrawal)
    ELSE LET years_done == simulated_years(capital_value, RDiv(annual_rate, RInt(12)),
                                           withdrawal, 0)
         IN  IF years_done < MAX_DEPLETION_YEARS THEN Value(RInt(years_done)) ELSE Inf

\* depletion_years < other, for floats that may be float('inf')
years_lt(a, b) ==
    /\ a.kind = "value"
    /\ b.kind = "inf" \/ RLt(a.value, b.value)

\* int(x), for x >= 0
int(x) == x.num \div x.den

RECURSIVE capital_sum(_)
\* assets_df['Capital_Value'].sum()
capital_sum(assets) ==
    IF assets = <<>> THEN Zero
    ELSE RAdd(Head(assets).Capital_Value, capital_sum(Tail(assets)))

\* f"{asset['Description']} ({asset['Owner']})"
asset_name(asset) == <<asset.Description, asset.Owner>>

\* what the analysis returns: years, and what the two messages say
SustainabilityResult(years_arg, headline, urgent, earliest, zero_asset, zero_years) ==
    [kind |-> "value", years |-> years_arg, headline |-> headline, urgent |-> urgent,
     earliest_depleting_asset |-> earliest,
     zero_surplus_asset |-> zero_asset, years_until_zero_surplus |-> zero_years]
NotAnalysed ==
    [kind |-> "none", years |-> Inf, headline |-> "none", urgent |-> FALSE,
     earliest_depleting_asset |-> <<"None">>,
     zero_surplus_asset |-> <<"None">>, years_until_zero_surplus |-> Inf]

\* a faulty variant of line 222: five years are flagged too
urgency_marker_inclusive(years_until_depletion) == int(years_until_depletion) <= 5

\* lines 216, 222: years = int(years_until_depletion); if years < 5
urgency_marker(years_until_depletion) == int(years_until_depletion) < 5

\* a faulty variant of line 103: zero years are returned
no_withdrawal_result_zero ==
    SustainabilityResult(Value(Zero), "covers", FALSE, <<"None">>, <<"None">>, Inf)

\* line 103: the result when no asset is withdrawn from
no_withdrawal_result ==
    SustainabilityResult(Inf, "covers", FALSE, <<"None">>, <<"None">>, Inf)

\* a faulty variant of line 127: the latest depletion is kept
earlier_depletion_latest(depletion_years, min_depletion_years) ==
    /\ depletion_years.kind = "value"
    /\ min_depletion_years.kind = "inf"
           \/ RLt(min_depletion_years.value, depletion_years.value)

\* line 127: depletion_years < min_depletion_years
\*           and depletion_years < float('inf')
earlier_depletion(depletion_years, min_depletion_years) ==
    years_lt(depletion_years, min_depletion_years) /\ years_lt(depletion_years, Inf)

\* lines 109-115: the locals before the loop
walk_start(surplus) ==
    [remaining_surplus |-> surplus,
     years_until_zero_surplus |-> Inf, zero_surplus_asset |-> <<"None">>,
     min_depletion_years |-> Inf, earliest_depleting_asset |-> <<"None">>]

\* The running surplus is a float, and line 133 subtracts with rounding: the
\* difference is rounded to the nearest float, ties to the even mantissa.
\* Python's floats keep 53 significant bits, the floats here MantissaBits.
MantissaBits == 11

RECURSIVE unit_in_last_place(_, _)
\* the power of two that the last bit of the mantissa of a positive value
\* counts, found from the given power of two
unit_in_last_place(magnitude, unit) ==
    IF RLe(RMul(unit, RInt(2 ^ MantissaBits)), magnitude)
    THEN unit_in_last_place(magnitude, RMul(unit, RInt(2)))
    ELSE IF RLt(magnitude, RMul(unit, RInt(2 ^ (MantissaBits - 1))))
    THEN unit_in_last_place(magnitude, RDiv(unit, RInt(2)))
    ELSE unit

\* the nearest integer of a value >= 0, the even one of two equally near
round_half_even(q) ==
    LET below == q.num \div q.den
        rest == q.num % q.den
    IN  IF 2 * rest < q.den THEN below
        ELSE IF 2 * rest > q.den THEN below + 1
        ELSE IF below % 2 = 0 THEN below ELSE below + 1

\* the float nearest to an exact value
nearest_float(x) ==
    IF x = Zero THEN Zero
    ELSE LET magnitude == IF RLt(x, Zero) THEN RSub(Zero, x) ELSE x
             unit == unit_in_last_place(magnitude, RInt(1))
             rounded == RMul(RInt(round_half_even(RDiv(magnitude, unit))), unit)
         IN  IF RLt(x, Zero) THEN RSub(Zero, rounded) ELSE rounded

\* a variant of line 133 that subtracts exactly
float_sub_exact(a, b) == RSub(a, b)

\* line 133: remaining_surplus -= monthly_income
float_sub(a, b) == nearest_float(RSub(a, b))

\* lines 122-138: the loop body for one asset
walk_step(st, asset) ==
    LET depletion_years == asset.Depletion_Years
        monthly_income == asset.Monthly_Value
        earlier == earlier_depletion(depletion_years, st.min_depletion_years)
        counted == years_lt(depletion_years, Inf) /\ RLt(Zero, st.remaining_surplus)
        remaining == IF counted THEN float_sub(st.remaining_surplus, monthly_income)
                     ELSE st.remaining_surplus
        event == counted /\ RLe(remaining, Zero) /\ st.years_until_zero_surplus = Inf
    IN  [remaining_surplus |-> remaining,
         years_until_zero_surplus |->
             IF event THEN depletion_years ELSE st.years_until_zero_surplus,
         zero_surplus_asset |->
             IF event THEN asset_name(asset) ELSE st.zero_surplus_asset,
         min_depletion_years |->
             IF earlier THEN depletion_years ELSE st.min_depletion_years,
         earliest_depleting_asset |->
             IF earlier THEN asset_name(asset) ELSE st.earliest_depleting_asset]

RECURSIVE walk(_, _)
\* line 121: for _, asset in withdrawal_assets.iterrows()
walk(st, assets) ==
    IF assets = <<>> THEN st ELSE walk(walk_step(st, Head(assets)), Tail(assets))

\* line 106: the orders sort_values('Depletion_Years') can leave the rows in
sorted_orders(assets) ==
    {order \in [1..Len(assets) -> 1..Len(assets)] :
        /\ \A i, j \in 1..Len(assets) : i # j => order[i] # order[j]
        /\ \A i \in 1..(Len(assets) - 1) :
               ~years_lt(assets[order[i + 1]].Depletion_Years,
                         assets[order[i]].Depletion_Years)}

RECURSIVE simulate_months(_, _, _, _)
\* lines 161-165: the balance after at most n months of growth and
\* withdrawal, 0 from the first month that leaves it <= 0
simulate_months(future_value, rate, withdrawal, n) ==
    IF n = 0 THEN future_value
    ELSE LET next_value == withdraw(grow(future_value, rate), withdrawal)
         IN  IF RLe(next_value, Zero) THEN Zero
             ELSE simulate_months(next_value, rate, withdrawal, n - 1)

RECURSIVE simulate(_, _, _, _)
\* lines 160-165: the same loop over any number of months, evaluated twelve
\* months at a time
simulate(future_value, rate, withdrawal, months) ==
    IF months <= 12 THEN simulate_months(future_value, rate, withdrawal, months)
    ELSE LET year_end == simulate_months(future_value, rate, withdrawal, 12)
         IN  IF year_end = Zero THEN Zero
             ELSE simulate(year_end, rate, withdrawal, months - 12)

RECURSIVE power_steps(_, _, _)
\* product * base ** n, for a whole n >= 0
power_steps(product, base, n) ==
    IF n = 0 \/ product = Zero THEN product
    ELSE power_steps(fl(RMul(product, base)), base, n - 1)

RECURSIVE power_from(_, _, _)
\* the same product, evaluated twelve factors at a time
power_from(product, base, n) ==
    IF n <= 12 THEN power_steps(product, base, n)
    ELSE LET twelve == power_steps(product, base, 12)
         IN  IF twelve = Zero THEN Zero ELSE power_from(twelve, base, n - 12)

\* base ** n, for a whole n >= 0
power(base, n) == power_from(RInt(1), base, n)

\* line 170: Capital_Value * ((1 + monthly_growth_rate) ** (years * 12));
\* years * 12 is whole for every asset of AssetCases
compounded(capital_value, rate, years_arg) ==
    fl(RMul(capital_value, power(RAdd(RInt(1), rate), int(RMul(years_arg, RInt(12))))))

\* lines 156-167: what is left of another asset that is withdrawn from
remaining_balance(future_asset, rate, years_arg) ==
    RMax(Zero, simulate(future_asset.Capital_Value, rate,
                        future_asset.Monthly_Value,
                        int(RMul(years_arg, RInt(12)))))

\* lines 143-171: the Capital_Value written for one row of future_assets,
\* the surplus running out at years_arg when the asset named zero_asset
\* is depleted
future_capital(future_asset, zero_asset, years_arg) ==
    LET rate == RDiv(parse_growth_rate(future_asset.Growth_Rate), RInt(12))
    IN  IF RLt(Zero, future_asset.Monthly_Value)
        THEN IF asset_name(future_asset) = zero_asset THEN Zero
             ELSE remaining_balance(future_asset, rate, years_arg)
        ELSE compounded(future_asset.Capital_Value, rate, years_arg)

\* lines 118, 141-171: future_assets when the loop over the withdrawal
\* assets has ended in st
future_assets_at(assets, st) ==
    IF st.years_until_zero_surplus = Inf THEN assets
    ELSE [i \in 1..Len(assets) |->
             [assets[i] EXCEPT !.Capital_Value =
                 future_capital(assets[i], st.zero_surplus_asset,
                                st.years_until_zero_surplus.value)]]

\* line 174: future_assets['Capital_Value'].sum()
remaining_assets_value == capital_sum(future_assets)

\* a faulty variant of line 118: the working table is the caller's table
aliased(frame, written) == written

\* line 118: future_assets = assets_df.copy(); the caller's table after
\* the rows of the copy have been written
copied(frame, written) == frame

\* lines 91-171: the locals when the loop over the sorted withdrawal assets
\* has ended
surplus_walk(assets, surplus, order) ==
    LET withdrawal_assets == SelectSeq(assets, LAMBDA a : RLt(Zero, a.Monthly_Value))
        sorted == [i \in 1..Len(withdrawal_assets) |-> withdrawal_assets[order[i]]]
    IN  walk(walk_start(surplus), sorted)

\* lines 91-198: the surplus branch, the withdrawal assets sorted in the
\* given order
surplus_branch(assets, surplus, order) ==
    LET withdrawal_assets == SelectSeq(assets, LAMBDA a : RLt(Zero, a.Monthly_Value))
        sorted == [i \in 1..Len(withdrawal_assets) |-> withdrawal_assets[order[i]]]
        st == walk(walk_start(surplus), sorted)
    IN  IF Len(withdrawal_assets) = 0
        THEN no_withdrawal_result
        ELSE SustainabilityResult(st.min_depletion_years, "covers", FALSE,
                                  st.earliest_depleting_asset,
                                  st.zero_surplus_asset, st.years_until_zero_surplus)

\* lines 200-226: the deficit branch
deficit_branch(assets, surplus) ==
    LET monthly_deficit == IF RLt(surplus, Zero) THEN RSub(Zero, surplus) ELSE surplus
        total_assets == capital_sum(assets)
        years_until_depletion == RDiv(total_assets, RMul(monthly_deficit, RInt(12)))
    IN  IF ~RLt(Zero, monthly_deficit) \/ RLt(RInt(LONG_TERM_YEARS), years_until_depletion)
           \/ RLt(RInt(100), years_until_depletion)
        THEN SustainabilityResult(Inf, "over 100 years", FALSE, <<"None">>, <<"None">>, Inf)
        ELSE SustainabilityResult(Value(years_until_depletion), "will last",
                                  urgency_marker(years_until_depletion),
                                  <<"None">>, <<"None">>, Inf)

(* The analyses asked for.                                                  *)

MaxSustAssets == 2

\* the smallest withdrawal from which on the floats are 2 apart
LargeWithdrawal == 2 ^ MantissaBits

\* capital, monthly withdrawal and growth rate of the asset rows: depleting
\* in 10, 5 and 0 years, never withdrawn from, withdrawn from for ever,
\* depleting in one month and (shrinking) in a year, growing and swinging
\* without withdrawal, and lasting 100 and 200 years at 100 a month; and
\* two assets depleting in 5 years, one with a withdrawal so small that a
\* float of the size of the other's does not hold the difference
AssetCases ==
    {<<RInt(60000), RInt(500), Zero>>, <<RInt(6000), RInt(100), Zero>>,
     <<Zero, RInt(100), Zero>>, <<RInt(1000), Zero, Zero>>,
     <<RInt(200), RInt(100), RInt(6)>>,
     <<RInt(100), RInt(100), Zero>>, <<RInt(1000), RInt(100), RInt(-6)>>,
     <<RInt(1000), Zero, RInt(6)>>, <<RInt(1000), Zero, RInt(-24)>>,
     <<RInt(120000), Zero, Zero>>, <<RInt(240000), Zero, Rat(5, 100)>>,
     <<RInt(60 * LargeWithdrawal), RInt(LargeWithdrawal), Zero>>,
     <<RInt(60), RInt(1), Zero>>}

\* data_service.py lines 129-136: the Depletion_Years column
DepletionYearsColumn ==
    [c \in AssetCases |-> calculate_depletion_years(c[1], c[2], parse_growth_rate(c[3]))]

SustAssetRows ==
    {[Description |-> d, Owner |-> "Alice", Capital_Value |-> c[1],
      Monthly_Value |-> c[2], Growth_Rate |-> c[3],
      Depletion_Years |-> DepletionYearsColumn[c]] :
        d \in {"ISA", "Pension"}, c \in AssetCases}

Surpluses == {RInt(-1000), RInt(-100), Zero, RInt(100), RInt(600),
              RInt(LargeWithdrawal + 2)}

SustIdle ==
    /\ assets_df = <<>> /\ monthly_surplus = Zero /\ sustainability = NotAnalysed
    /\ sort_order = <<>> /\ future_assets = <<>>

SustInit ==
    /\ assets_df = <<>> /\ monthly_surplus \in Surpluses /\ sustainability = NotAnalysed
    /\ sort_order = <<>> /\ future_assets = <<>>

\* one more row of the assets table
LoadSustAsset(r) ==
    /\ Len(assets_df) < MaxSustAssets
    /\ sustainability = NotAnalysed
    /\ assets_df' = Append(assets_df, r)
    /\ UNCHANGED <<monthly_surplus, sustainability, sort_order, future_assets, notSust>>

\* line 91 onwards, monthly_surplus >= 0; the sort leaves the same table
\* in the same order whenever it is called
SustainabilitySurplus ==
    /\ RLe(Zero, monthly_surplus)
    /\ \E order \in sorted_orders(SelectSeq(assets_df, LAMBDA a : RLt(Zero, a.Monthly_Value))) :
           /\ sustainability # NotAnalysed => order = sort_order
           /\ sort_order' = order
           /\ sustainability' = surplus_branch(assets_df, monthly_surplus, order)
           /\ future_assets' =
                  future_assets_at(assets_df, surplus_walk(assets_df, monthly_surplus, order))
           /\ assets_df' = copied(assets_df, future_assets')
    /\ UNCHANGED <<monthly_surplus, notSust>>

\* line 200 onwards, monthly_surplus < 0
SustainabilityDeficit ==
    /\ RLt(monthly_surplus, Zero)
    /\ sustainability' = deficit_branch(assets_df, monthly_surplus)
    /\ UNCHANGED <<assets_df, monthly_surplus, sort_order, future_assets, notSust>>

SustNext ==
    \/ \E r \in SustAssetRows : LoadSustAsset(r)
    \/ SustainabilitySurplus
    \/ SustainabilityDeficit

-----------------------------------------------------------------------------
(* Specifications: one per component, the other components at rest.         *)

InitTax == TaxIdle /\ FreqIdle /\ IncIdle /\ DeplIdle /\ ProjIdle /\ SustIdle /\ UkIdle
SpecTax == InitTax /\ [][TaxNext]_vars

InitUkTax == UkIdle /\ TaxIdle /\ FreqIdle /\ IncIdle /\ DeplIdle /\ ProjIdle /\ SustIdle
SpecUkTax == InitUkTax /\ [][UkNext]_vars

InitFreq == FreqInit /\ TaxIdle /\ IncIdle /\ DeplIdle /\ ProjIdle /\ SustIdle /\ UkIdle
SpecFreq == InitFreq /\ [][FreqNext]_vars

InitIncome == IncIdle /\ TaxIdle /\ FreqIdle /\ DeplIdle /\ ProjIdle /\ SustIdle /\ UkIdle
SpecIncome == InitIncome /\ [][IncNext]_vars

InitDepl == DeplInit /\ TaxIdle /\ FreqIdle /\ IncIdle /\ ProjIdle /\ SustIdle /\ UkIdle
SpecDepl == InitDepl /\ [][DeplNext]_vars

InitProj == ProjInit /\ TaxIdle /\ FreqIdle /\ IncIdle /\ DeplIdle /\ SustIdle /\ UkIdle
SpecProj == InitProj /\ [][ProjNext]_vars

InitSust == SustInit /\ TaxIdle /\ FreqIdle /\ IncIdle /\ DeplIdle /\ ProjIdle /\ UkIdle
SpecSust == InitSust /\ [][SustNext]_vars

\* the projection and analysis entry points, a session using the ones or
\* the others
InitEntry ==
    /\ (ProjInit /\ SustIdle) \/ (ProjIdle /\ SustInit)
    /\ TaxIdle /\ UkIdle /\ FreqIdle /\ IncIdle /\ DeplIdle
EntryNext == (SustIdle /\ ProjNext) \/ (ProjIdle /\ SustNext)
SpecEntry == InitEntry /\ [][EntryNext]_vars

-----------------------------------------------------------------------------
(* Properties of the tax calculator, checked under SpecTax.                 *)

TaxCalled == tax_fn # "none"
BothCalled == tax_fn # "none" /\ prev_fn # "none"

\* C1: for every gross annual income >= 0 the breakdown's total_tax is >= 0
\* and each of basic_rate_amount, higher_rate_amount and
\* additional_rate_amount is >= 0, also below the personal allowance.
C1_NonNegative ==
    TaxCalled =>
        /\ RLe(Zero, breakdown.total_tax)
        /\ RLe(Zero, breakdown.basic_rate_amount)
        /\ RLe(Zero, breakdown.higher_rate_amount)
        /\ RLe(Zero, breakdown.additional_rate_amount)

\* C2: total_tax is monotonic non-decreasing in income: of two calls of the
\* same function with incomes a <= b, the first total_tax is <= the second.
C2_Monotonic ==
    (BothCalled /\ prev_fn = tax_fn /\ RLe(prev_income, gross_income))
        => RLe(prev_breakdown.total_tax, breakdown.total_tax)

\* C2 witness: a call below the allowance boundary followed by a call above
\* the higher-rate limit, the taper region lying between them.
C2_Witness ==
    /\ prev_fn = "core.tax" /\ tax_fn = "core.tax"
    /\ prev_income = RInt(PERSONAL_ALLOWANCE - 1)
    /\ gross_income = RInt(HIGHER_RATE_LIMIT + 1)
    /\ RLt(prev_breakdown.total_tax, breakdown.total_tax)

TaperedAllowanceFloor(b) == RMax(Zero, RSub(b.gross_income, b.tax_free_allowance))

\* C3: the three band amounts add up to gross_income minus the tapered
\* allowance floored at zero; the basic band is at most
\* max(0, 50270 - allowance), the higher band at most 125140 - 50270, and a
\* later band is non-zero only when every earlier band is full.
C3_BandsPartition ==
    TaxCalled =>
        LET basicWidth == RMax(Zero, RSub(RInt(50270), breakdown.tax_free_allowance))
            higherWidth == RInt(125140 - 50270)
        IN  /\ RAdd(RAdd(breakdown.basic_rate_amount, breakdown.higher_rate_amount),
                    breakdown.additional_rate_amount) = TaperedAllowanceFloor(breakdown)
            /\ RLe(breakdown.basic_rate_amount, basicWidth)
            /\ RLe(breakdown.higher_rate_amount, higherWidth)
            /\ breakdown.higher_rate_amount # Zero
                   => breakdown.basic_rate_amount = basicWidth
            /\ breakdown.additional_rate_amount # Zero
                   => /\ breakdown.basic_rate_amount = basicWidth
                      /\ breakdown.higher_rate_amount = higherWidth

\* C4: with the default bands, get_tax_breakdown(12570) has total_tax 0 and
\* get_tax_breakdown(60270) has basic 37700, higher 10000, additional 0 and
\* total_tax 11540.
C4_DefaultBandValues ==
    /\ (tax_fn = "core.tax" /\ gross_income = RInt(12570))
           => breakdown.total_tax = Zero
    /\ (tax_fn = "core.tax" /\ gross_income = RInt(60270))
           => /\ breakdown.basic_rate_amount = RInt(37700)
              /\ breakdown.higher_rate_amount = RInt(10000)
              /\ breakdown.additional_rate_amount = Zero
              /\ breakdown.total_tax = RInt(11540)

\* C4 witness: get_tax_breakdown(12570) then get_tax_breakdown(60270).
C4_Witness ==
    /\ prev_fn = "core.tax" /\ prev_income = RInt(12570)
    /\ prev_breakdown.total_tax = Zero
    /\ tax_fn = "core.tax" /\ gross_income = RInt(60270)
    /\ breakdown.total_tax = RInt(11540)

\* C5: tax_free_allowance is 12570 for income <= 100000 and
\* 12570 - min((income - 100000)/2, 12570) above; it is never negative, is 70
\* at income 125000 and 0 for every income >= 125140.
C5_AllowanceTaper ==
    TaxCalled =>
        LET a == breakdown.tax_free_allowance
            over == RDiv(RSub(gross_income, RInt(100000)), RInt(2))
        IN  /\ RLe(gross_income, RInt(100000)) => a = RInt(12570)
            /\ RLt(RInt(100000), gross_income)
                   => a = RSub(RInt(12570), RMin(over, RInt(12570)))
            /\ RLe(Zero, a)
            /\ gross_income = RInt(125000) => a = RInt(70)
            /\ RLe(RInt(125140), gross_income) => a = Zero

\* C5 witness: a call inside the taper region, where part of the allowance
\* is left.
C5_Witness ==
    /\ tax_fn = "core.tax" /\ gross_income = RInt(125000)
    /\ breakdown.tax_free_allowance = RInt(70)

-----------------------------------------------------------------------------
(* Properties of calculate_uk_tax, checked under SpecUkTax.                 *)

UkTaxCalled == uk_fn # "none"

\* what get_tax_breakdown of the module called returns for the same income
BreakdownOfSameModule ==
    IF uk_fn = "core.tax" THEN get_tax_breakdown(uk_income)
    ELSE dp_get_tax_breakdown(uk_income)

SameAmounts(summary, tax_breakdown) ==
    /\ summary.total_tax = tax_breakdown.total_tax
    /\ summary.tax_free_allowance = tax_breakdown.tax_free_allowance
    /\ summary.basic_rate_amount = tax_breakdown.basic_rate_amount
    /\ summary.higher_rate_amount = tax_breakdown.higher_rate_amount
    /\ summary.additional_rate_amount = tax_breakdown.additional_rate_amount

\* C28: in each module, calculate_uk_tax(income) and get_tax_breakdown(income)
\* return the same total_tax, tax_free_allowance and band amounts for every
\* income >= 0, incomes below the personal allowance included.
C28_EntryPointsAgree ==
    UkTaxCalled => SameAmounts(uk_tax, BreakdownOfSameModule)

\* where the two functions do agree: in core/tax.py for every income, in
\* utils/data_processor.py from the personal allowance up
EntryPointsAgreeFromAllowance ==
    (UkTaxCalled /\ (uk_fn = "core.tax" \/ RLe(RInt(12570), uk_income)))
        => SameAmounts(uk_tax, BreakdownOfSameModule)

\* below the allowance utils calculate_uk_tax returns no tax and empty bands
DpNoTaxBelowAllowance ==
    (uk_fn = "utils.data_processor" /\ RLt(uk_income, RInt(12570)))
        => /\ uk_tax.total_tax = Zero
           /\ uk_tax.basic_rate_amount = Zero
           /\ BreakdownOfSameModule.basic_rate_amount = RSub(uk_income, RInt(12570))

-----------------------------------------------------------------------------
(* Properties of the frequency normalizers, checked under SpecFreq.         *)

Normalized == {monthly_ds, monthly_dp, monthly_item} \ {NotComputed}

\* the monthly value section 4.1 of the specification gives a canonical label
SpecifiedMonthly(label, period_value) ==
    IF label = <<"W", "e", "e", "k", "l", "y">> THEN RDiv(RMul(period_value, RInt(52)), RInt(12))
    ELSE IF label = <<"M", "o", "n", "t", "h", "l", "y">> THEN period_value
    ELSE IF label = <<"Q", "u", "a", "r", "t", "e", "r", "l", "y">> THEN RDiv(period_value, RInt(3))
    ELSE IF label = <<"A", "n", "n", "u", "a", "l", "l", "y">> THEN RDiv(period_value, RInt(12))
    ELSE Zero

HasCanonicalLabel ==
    row.Frequency.kind = "str" /\ row.Frequency.chars \in CanonicalLabels

\* C6: every normalizer maps Weekly to period_value*52/12, Monthly to
\* period_value, Quarterly to period_value/3, Annually to period_value/12 and
\* Investment to 0, so one record gets one monthly value whichever
\* normalizer processes it.
C6_NormalizersAgree ==
    HasCanonicalLabel =>
        /\ \A m \in Normalized :
               m = Value(SpecifiedMonthly(row.Frequency.chars, row.Period_Value))
        /\ \A m1, m2 \in Normalized : m1 = m2

KnownKeywords == {<<"w", "e", "e", "k">>, <<"m", "o", "n", "t", "h">>, <<"q", "u", "a", "r", "t", "e", "r">>, <<"y", "e", "a", "r">>, <<"a", "n", "n", "u", "a", "l">>, <<"i", "n", "v", "e", "s", "t">>}

ContainsWeek ==
    row.Frequency.kind = "str" /\ Contains(<<"w", "e", "e", "k">>, lower(row.Frequency.chars))

UnrecognizedOrMissing ==
    \/ row.Frequency.kind # "str"
    \/ \A k \in KnownKeywords : ~Contains(k, lower(row.Frequency.chars))

\* C7: a label containing "week" in any letter case is normalized as Weekly;
\* a label matching no known keyword, or a missing frequency, is passed
\* through as if Monthly; normalization never fails on a frequency label.
C7_PermissiveMatching ==
    \A m \in Normalized :
        /\ m.kind = "value"
        /\ ContainsWeek => m = Value(RDiv(RMul(row.Period_Value, RInt(52)), RInt(12)))
        /\ UnrecognizedOrMissing => m = Value(row.Period_Value)

-----------------------------------------------------------------------------
(* Properties of the income summaries, checked under SpecIncome.            *)

Summaries ==
    {res.income_summary : res \in {r \in {ds_result, dp_result} : r.kind = "value"}}

\* the monthly value section 4.1 of the specification gives a record
\* the amount a monetary cell stands for: its number, and 0 for a string
\* that is no number
Amount(cell) ==
    IF ~IsString(cell) THEN cell
    ELSE LET parsed == float(replace(cell.chars, <<",">>))
         IN  IF parsed.kind = "value" THEN parsed.value ELSE Zero

RecordMonthly(r) == SpecifiedMonthly(r.Frequency.chars, Amount(r.Period_Value))

IncomeOwners == OwnersOf(SelectSeq(df, LAMBDA r : r.Type = "Income"))

\* 12 times the sum of the monthly values of an owner's Income records and
\* Asset records with a positive withdrawal that are taxable (or not)
AnnualOf(owner, taxable) ==
    LET counted == SelectSeq(df, LAMBDA r :
                       /\ r.Owner = owner
                       /\ (r.Taxable = "yes") = taxable
                       /\ \/ r.Type = "Income"
                          \/ r.Type = "Asset" /\ RLt(Zero, RecordMonthly(r)))
    IN  RMul(RSum([i \in 1..Len(counted) |-> RecordMonthly(counted[i])]), RInt(12))

\* C8: for every owner with an Income record (the Joint aggregate aside),
\* taxable_income is 12 times the monthly values of the owner's taxable
\* Income records and taxable Asset records with positive withdrawal,
\* non_taxable_income the same over the non-taxable ones, tax the tax
\* breakdown of taxable_income and
\* net_income = (taxable_income - tax) + non_taxable_income, in the summary
\* of each pipeline.
C8_OwnerSummary ==
    \A summary \in Summaries : \A owner \in IncomeOwners \ {"Joint"} :
        /\ owner \in DOMAIN summary
        /\ summary[owner].taxable_income = AnnualOf(owner, TRUE)
        /\ summary[owner].non_taxable_income = AnnualOf(owner, FALSE)
        /\ summary[owner].tax =
               get_tax_breakdown(summary[owner].taxable_income).total_tax
        /\ summary[owner].net_income =
               RAdd(RSub(summary[owner].taxable_income, summary[owner].tax),
                    summary[owner].non_taxable_income)

JointHasIncome ==
    \E i \in 1..Len(df) :
        /\ df[i].Type = "Income" /\ df[i].Owner = "Joint"
        /\ RLt(Zero, Amount(df[i].Period_Value))

\* C9: income owned by Joint is treated as non-taxable and passed through
\* unreduced: the Joint entry has taxable_income 0, tax 0 and net_income
\* equal to the full annualized Joint income, whatever the Taxable flags.
C9_JointPassedThrough ==
    JointHasIncome =>
        \A summary \in Summaries :
            /\ "Joint" \in DOMAIN summary
            /\ summary["Joint"].taxable_income = Zero
            /\ summary["Joint"].tax = Zero
            /\ summary["Joint"].net_income
                   = RAdd(AnnualOf("Joint", TRUE), AnnualOf("Joint", FALSE))

\* a Period_Value cell is a string that is no number
Unparseable(cell) ==
    IsString(cell) /\ float(replace(cell.chars, <<",">>)).kind # "value"

\* the table with 0 in the place of every such cell
OtherRecordsOnly ==
    [i \in 1..Len(df) |->
        IF Unparseable(df[i].Period_Value)
        THEN [df[i] EXCEPT !.Period_Value = Zero] ELSE df[i]]

\* C27: a record whose monetary value is a string that cannot be parsed as
\* a number does not abort the batch: process_data of either pipeline
\* returns the results in which every other record contributes its normal
\* value.
C27_UnparseableRecord ==
    (\E i \in 1..Len(df) : Unparseable(df[i].Period_Value)) =>
        /\ ds_result # NotProcessed =>
               ds_result.kind = "value" /\ ds_result = ds_process_data(OtherRecordsOnly)
        /\ dp_result # NotProcessed =>
               dp_result.kind = "value" /\ dp_result = dp_process_data(OtherRecordsOnly)

RECURSIVE TotalTax(_, _)
\* the tax of all the owners of a summary
TotalTax(summary, owners) ==
    IF owners = {} THEN Zero
    ELSE LET o == CHOOSE x \in owners : TRUE
         IN  RAdd(summary[o].tax, TotalTax(summary, owners \ {o}))

\* 12 times the monthly values of all Income records and of all Asset
\* records with a positive withdrawal, each record once
HouseholdGross ==
    LET counted == SelectSeq(df, LAMBDA r :
                       \/ r.Type = "Income"
                       \/ r.Type = "Asset" /\ RLt(Zero, RecordMonthly(r)))
    IN  RMul(RSum([i \in 1..Len(counted) |-> RecordMonthly(counted[i])]), RInt(12))

\* C30: total_net_income of process_data counts the annualized withdrawal
\* of every withdrawal-bearing asset exactly once, whoever owns it (an owner
\* without Income record, Joint), and no owner's income twice: with the tax
\* of the owners added back it is the annual value of all Income records
\* and withdrawal-bearing Asset records.
C30_WithdrawalsCountedOnce ==
    \A res \in {r \in {ds_result, dp_result} : r.kind = "value"} :
        RAdd(res.total_net_income, TotalTax(res.income_summary, DOMAIN res.income_summary))
            = HouseholdGross

-----------------------------------------------------------------------------
(* Properties of the depletion simulator, checked under SpecDepl.           *)

\* C10: whenever monthly_withdrawal <= 0, calculate_depletion_years returns
\* infinite, for every capital and growth rate, straight from its first
\* test: the closed form's division and the simulation loop are not run.
C10_NoWithdrawalIsInfinite ==
    RLe(monthly_withdrawal, Zero) =>
        /\ depl_pc \in {"entry", "done"}
        /\ month_steps = 0
        /\ depl_pc = "done" => depl_result = Inf

\* C10 witness: a returned call with no withdrawal, no capital and a
\* negative growth rate.
C10_Witness ==
    /\ depl_pc = "done" /\ depl_result = Inf
    /\ monthly_withdrawal = Zero /\ capital = Zero /\ RLt(growth_rate, Zero)

\* the call returned from the zero-growth closed form
ClosedFormReturned ==
    depl_pc = "done" /\ RLt(Zero, monthly_withdrawal) /\ growth_rate = Zero

\* C11: with growth 0 and a positive withdrawal, calculate_depletion_years
\* returns exactly capital / (monthly_withdrawal * 12), also beyond the
\* 100-year horizon; capital 120000 and withdrawal 1000 give exactly 10.
C11_ClosedForm ==
    ClosedFormReturned =>
        /\ depl_result = Value(RDiv(capital, RMul(monthly_withdrawal, RInt(12))))
        /\ (capital = RInt(120000) /\ monthly_withdrawal = RInt(1000))
               => depl_result = Value(RInt(10))

\* C11 witness: a closed-form result beyond the horizon, 240000 / (100 * 12).
C11_Witness ==
    /\ ClosedFormReturned
    /\ capital = RInt(240000) /\ monthly_withdrawal = RInt(100)
    /\ depl_result = Value(RInt(200))

\* the call returned from the simulation
SimulationReturned ==
    depl_pc = "done" /\ RLt(Zero, monthly_withdrawal) /\ growth_rate # Zero

\* C12: with a positive withdrawal and non-zero growth, the result is finite
\* whenever the simulated balance reached <= 0 at some month of the 1200,
\* a month of the 100th year included, and infinite only when the balance
\* is still positive after all 1200 months.
C12_FiniteWithinHorizon ==
    SimulationReturned =>
        /\ RLe(current_capital, Zero) => depl_result.kind = "value"
        /\ depl_result = Inf =>
               RLt(Zero, current_capital) /\ month_steps = 12 * MAX_DEPLETION_YEARS

\* what is left of a call: the months and years the horizon still allows,
\* then the statements up to the next month or the return
PcRank ==
    CASE depl_pc = "entry" -> 3
      [] depl_pc = "while" -> 2
      [] depl_pc = "for" -> 1
      [] depl_pc = "return" -> 1
      [] OTHER -> 0
Rank == 10 * (12 * MAX_DEPLETION_YEARS - month_steps) + 4 * (MAX_DEPLETION_YEARS - years) + PcRank

\* C13: the simulation always returns, after at most 100 * 12 month steps,
\* for every capital, positive withdrawal and non-zero growth rate: no call
\* takes more month steps, and every step of a call brings it nearer to
\* the return (at each statement short of the return a step can be taken).
C13_LoopTerminates ==
    /\ [](/\ month_steps <= 12 * MAX_DEPLETION_YEARS
          /\ Rank >= 0
          /\ depl_pc \in {"entry", "while", "for", "year_end", "return", "done"})
    /\ [][Rank' < Rank]_vars

\* C13 witness: a call whose growth outpaces the withdrawal has returned
\* after all 1200 month steps.
C13_Witness ==
    /\ SimulationReturned
    /\ RLt(monthly_withdrawal, RMul(capital, monthly_growth_rate))
    /\ month_steps = 12 * MAX_DEPLETION_YEARS
    /\ depl_result = Inf

\* the balance reached <= 0 in the simulation, which returned a finite value
DepletedInSimulation ==
    /\ SimulationReturned /\ month_steps >= 1
    /\ RLe(current_capital, Zero) /\ depl_result.kind = "value"

\* C22: with a positive withdrawal and non-zero growth, when the balance
\* first reaches <= 0 after m monthly steps the result is the whole years
\* elapsed plus the fraction of the partial year, a value between
\* (m - 1) / 12 and m / 12, not the years rounded up to the next whole year.
C22_FractionalYears ==
    DepletedInSimulation =>
        /\ RLe(Rat(month_steps - 1, 12), depl_result.value)
        /\ RLe(depl_result.value, Rat(month_steps, 12))

-----------------------------------------------------------------------------
(* Properties of the projections, checked under SpecProj.                   *)

\* the results returned so far, each with its number of steps
ProjectionResults ==
    {res \in {[projections |-> fs_projections, steps |-> 12 * proj_years],
              [projections |-> ds_projections, steps |-> proj_years],
              [projections |-> dp_projections, steps |-> 12 * proj_years]} :
        res.projections # NotProjected}

\* the series a result holds for the asset of one row, computed for that row
BalanceSeries(res, asset) ==
    IF res.projections = ds_projections /\ res.steps = proj_years
    THEN year_series(asset, proj_years)
    ELSE month_series(asset, ds_calculate_monthly_value(asset).value, 12 * proj_years)

RECURSIVE SumOverRows(_, _, _)
SumOverRows(res, n, i) ==
    IF n = 0 THEN Zero
    ELSE RAdd(BalanceSeries(res, proj_assets[n])[i], SumOverRows(res, n - 1, i))

\* C14: every projection result has a 'Total Assets' series whose value at
\* each step is the sum over all asset records of that asset's balance at
\* the step, and every series has horizon + 1 entries.
C14_TotalAssets ==
    \A res \in ProjectionResults :
        /\ \A key \in DOMAIN res.projections : Len(res.projections[key]) = res.steps + 1
        /\ TotalKey \in DOMAIN res.projections
        /\ \A i \in 1..(res.steps + 1) :
               res.projections[TotalKey][i] = SumOverRows(res, Len(proj_assets), i)

\* an asset row whose series a result holds: the last row with its key
HeldRows ==
    {i \in 1..Len(proj_assets) :
        \A j \in (i + 1)..Len(proj_assets) :
            asset_key(proj_assets[j]) # asset_key(proj_assets[i])}

NonIncreasing(series) ==
    \A k \in 1..(Len(series) - 1) : RLe(series[k + 1], series[k])

\* an asset with a positive monthly withdrawal and growth rate 0
WithdrawalOnly(asset) ==
    /\ RLt(Zero, ds_calculate_monthly_value(asset).value)
    /\ parse_growth_rate(asset.Growth_Rate) = Zero

\* C15: for an asset with a positive monthly withdrawal and growth rate 0
\* the projected balances never increase from one step to the next, in the
\* month-stepped and in the year-stepped projection.
C15_NonIncreasing ==
    \A res \in ProjectionResults : \A i \in HeldRows :
        WithdrawalOnly(proj_assets[i])
            => NonIncreasing(res.projections[asset_key(proj_assets[i])])

\* C15 witness: both projections of a withdrawal-only asset over two years,
\* falling from 1000 to 0.
C15_Witness ==
    /\ proj_years = 2 /\ Len(proj_assets) = 1 /\ WithdrawalOnly(proj_assets[1])
    /\ fs_projections # NotProjected /\ ds_projections # NotProjected
    /\ fs_projections[asset_key(proj_assets[1])][1] = RInt(1000)
    /\ fs_projections[asset_key(proj_assets[1])][2] = RInt(900)
    /\ fs_projections[asset_key(proj_assets[1])][25] = Zero
    /\ ds_projections[asset_key(proj_assets[1])] = <<RInt(1000), Zero, Zero>>

\* no entry of the series is negative, and an entry of 0 is followed by
\* entries of 0 only
NeverNegative(series) ==
    \A k \in 1..Len(series) :
        /\ RLe(Zero, series[k])
        /\ series[k] = Zero => \A later \in k..Len(series) : series[later] = Zero

\* C24: no projected balance is negative, for every asset, every growth
\* rate (a growth of -100% a step or below included) and every withdrawal
\* >= 0, in the month-stepped and in the year-stepped series, and a balance
\* that is 0 is 0 at every later step.
C24_NeverNegative ==
    \A res \in ProjectionResults : \A i \in HeldRows :
        NeverNegative(res.projections[asset_key(proj_assets[i])])

\* C25: the month-stepped balance at month 12 * k equals the year-stepped
\* balance at year k, for every asset, with or without withdrawal, and
\* every k of the horizon.
C25_SameStepFormula ==
    (fs_projections # NotProjected /\ ds_projections # NotProjected) =>
        \A i \in HeldRows : \A k \in 0..proj_years :
            fs_projections[asset_key(proj_assets[i])][12 * k + 1]
                = ds_projections[asset_key(proj_assets[i])][k + 1]

-----------------------------------------------------------------------------
(* Properties of the sustainability analysis, checked under SpecSust.       *)

Analysed == sustainability.kind = "value"
SurplusAnalysed == Analysed /\ RLe(Zero, monthly_surplus)
DeficitAnalysed == Analysed /\ RLt(monthly_surplus, Zero)

\* the assets with a positive monthly withdrawal
WithdrawalAssets == SelectSeq(assets_df, LAMBDA a : RLt(Zero, a.Monthly_Value))

\* total capital / (|monthly_surplus| * 12)
DeficitYears == RDiv(capital_sum(assets_df), RMul(RSub(Zero, monthly_surplus), RInt(12)))

\* C16: in the deficit branch the years are total capital of all assets /
\* (|monthly_surplus| * 12); above 100 years the result is infinite,
\* otherwise the finite value is returned, and the headline carries the
\* urgency marker exactly when the value is below 5 years.
C16_DeficitBranch ==
    DeficitAnalysed =>
        IF RLt(RInt(100), DeficitYears)
        THEN sustainability.years = Inf
        ELSE /\ sustainability.years = Value(DeficitYears)
             /\ sustainability.urgent <=> RLt(DeficitYears, RInt(5))

\* C16 witness: 6000 of capital against a deficit of 100 a month lasts
\* exactly 5 years, returned without the urgency marker.
C16_Witness ==
    /\ DeficitAnalysed
    /\ monthly_surplus = RInt(-100) /\ capital_sum(assets_df) = RInt(6000)
    /\ sustainability.years = Value(RInt(5)) /\ ~sustainability.urgent

\* C17: in the surplus branch, if no asset has a positive monthly
\* withdrawal the result is infinite, whatever the assets.
C17_NoWithdrawalIndefinite ==
    (SurplusAnalysed /\ WithdrawalAssets = <<>>) => sustainability.years = Inf

\* C17 witness: two assets with capital and growth, nothing withdrawn.
C17_Witness ==
    /\ SurplusAnalysed /\ WithdrawalAssets = <<>> /\ Len(assets_df) = 2
    /\ \E i \in 1..2 : assets_df[i].Growth_Rate # Zero
    /\ sustainability.years = Inf

\* some withdrawal-bearing asset depletes
SomeDepletes == \E i \in 1..Len(WithdrawalAssets) : WithdrawalAssets[i].Depletion_Years # Inf

\* C18: in the surplus branch the asset reported as earliest depleting is a
\* withdrawal-bearing asset whose depletion_years is the minimum over all of
\* them, whether or not a zero-surplus event is found; if every
\* withdrawal-bearing asset has infinite depletion_years none is reported
\* and the result is infinite.
C18_EarliestDepleting ==
    (SurplusAnalysed /\ WithdrawalAssets # <<>>) =>
        IF SomeDepletes
        THEN \E i \in 1..Len(WithdrawalAssets) :
                 /\ sustainability.earliest_depleting_asset = asset_name(WithdrawalAssets[i])
                 /\ \A j \in 1..Len(WithdrawalAssets) :
                        ~years_lt(WithdrawalAssets[j].Depletion_Years,
                                  WithdrawalAssets[i].Depletion_Years)
        ELSE /\ sustainability.earliest_depleting_asset = <<"None">>
             /\ sustainability.years = Inf

\* C18 witness: of two assets depleting in 10 and in 5 years, loaded in that
\* order, the second is reported, and no zero-surplus event is found.
C18_Witness ==
    /\ SurplusAnalysed /\ Len(WithdrawalAssets) = 2
    /\ WithdrawalAssets[1].Depletion_Years = Value(RInt(10))
    /\ WithdrawalAssets[2].Depletion_Years = Value(RInt(5))
    /\ asset_name(WithdrawalAssets[1]) # asset_name(WithdrawalAssets[2])
    /\ sustainability.earliest_depleting_asset = asset_name(WithdrawalAssets[2])
    /\ sustainability.years_until_zero_surplus = Inf

RECURSIVE FirstNonPositive(_, _, _)
\* the first asset of a walk at which the running surplus becomes <= 0
\* (0 if there is none)
FirstNonPositive(assets, running, i) ==
    IF i > Len(assets) THEN 0
    ELSE IF RLe(RSub(running, assets[i].Monthly_Value), Zero) THEN i
    ELSE FirstNonPositive(assets, RSub(running, assets[i].Monthly_Value), i + 1)

\* C19: in the surplus branch (surplus 0 included), walking the
\* withdrawal-bearing assets in ascending depletion_years and subtracting
\* each one's monthly withdrawal from a running surplus, the zero-surplus
\* event is the first asset at which the running value becomes <= 0, at
\* that asset's depletion_years; one asset of capital 60000, withdrawal 500
\* and growth 0 with surplus 0 gives the event at 10 years.
C19_ZeroSurplusEvent ==
    SurplusAnalysed =>
        \E order \in sorted_orders(WithdrawalAssets) :
            LET sorted == [i \in 1..Len(WithdrawalAssets) |-> WithdrawalAssets[order[i]]]
                first == FirstNonPositive(sorted, monthly_surplus, 1)
            IN  IF first = 0 \/ sorted[first].Depletion_Years = Inf
                THEN sustainability.years_until_zero_surplus = Inf
                ELSE /\ sustainability.years_until_zero_surplus
                            = sorted[first].Depletion_Years
                     /\ sustainability.zero_surplus_asset = asset_name(sorted[first])

\* C20: the years returned are infinite whenever no depletion drives the
\* surplus to zero, also when an earliest-depleting asset is named.
C20_InfiniteWithoutEvent ==
    (SurplusAnalysed /\ sustainability.years_until_zero_surplus = Inf)
        => sustainability.years = Inf

RECURSIVE BalanceAfter(_, _, _, _)
\* the balance after n months, each one growth, then the withdrawal, then
\* the floor at zero
BalanceAfter(balance, rate, withdrawal, n) ==
    IF n = 0 THEN balance
    ELSE IF n <= 12 THEN floored_months(balance, rate, withdrawal, n)[n]
    ELSE LET year_end == year_of_months(balance, rate, withdrawal)
         IN  IF year_end = Zero THEN BalanceAfter(Zero, rate, withdrawal, n - 12)
             ELSE BalanceAfter(year_end, rate, withdrawal, n - 12)

\* the months at which an asset of AssetCases is depleted
DepletionMonths ==
    {int(RMul(DepletionYearsColumn[c].value, RInt(12))) :
        c \in {x \in AssetCases : DepletionYearsColumn[x] # Inf}}

\* what an asset is worth after the given months, if it is the one that
\* triggers the event (0), another one that is withdrawn from, or one
\* that is not
RemainingBalances ==
    [c \in AssetCases, n \in DepletionMonths |->
        IF RLt(Zero, c[2])
        THEN BalanceAfter(c[1], RDiv(c[3], RInt(12)), c[2], n)
        ELSE compounded(c[1], RDiv(c[3], RInt(12)), Rat(n, 12))]

\* a zero-surplus event was found
EventFound == SurplusAnalysed /\ sustainability.years_until_zero_surplus # Inf

\* what the asset of row i is worth after years_arg years, the asset of
\* row t having triggered the event
RemainingOf(i, t, years_arg) ==
    LET a == assets_df[i]
    IN  IF i = t THEN Zero
        ELSE RemainingBalances[<<a.Capital_Value, a.Monthly_Value, a.Growth_Rate>>,
                               int(RMul(years_arg, RInt(12)))]

\* C26: when a zero-surplus event is found at time T, the remaining
\* portfolio value is the sum of 0 for the triggering asset, of the balance
\* of every other withdrawal-bearing asset simulated month by month (growth,
\* then withdrawal, floored at zero) for the months up to T, and of the
\* capital of every asset without withdrawal compounded to T; no asset
\* contributes a negative amount.
C26_RemainingPortfolio ==
    EventFound =>
        \E t \in 1..Len(assets_df) :
            /\ RLt(Zero, assets_df[t].Monthly_Value)
            /\ asset_name(assets_df[t]) = sustainability.zero_surplus_asset
            /\ assets_df[t].Depletion_Years = sustainability.years_until_zero_surplus
            /\ Len(future_assets) = Len(assets_df)
            /\ \A i \in 1..Len(assets_df) :
                   /\ future_assets[i].Capital_Value
                          = RemainingOf(i, t, sustainability.years_until_zero_surplus.value)
                   /\ RLe(Zero, future_assets[i].Capital_Value)

\* the event time lies between the earliest and the latest finite
\* depletion_years of the withdrawal-bearing assets, and is the
\* depletion_years of a withdrawal-bearing asset with the reported name
EventAtTriggeringDepletion ==
    EventFound =>
        LET event_time == sustainability.years_until_zero_surplus
            Finite == {i \in 1..Len(WithdrawalAssets) :
                          WithdrawalAssets[i].Depletion_Years # Inf}
        IN  \* at or after the earliest depletion
            /\ \E i \in Finite :
                   ~years_lt(event_time, WithdrawalAssets[i].Depletion_Years)
            \* at or before the latest finite depletion
            /\ \E i \in Finite :
                   ~years_lt(WithdrawalAssets[i].Depletion_Years, event_time)
            /\ \E i \in Finite :
                   /\ asset_name(WithdrawalAssets[i]) = sustainability.zero_surplus_asset
                   /\ WithdrawalAssets[i].Depletion_Years = event_time

\* the event time of the walk in every order the sort can leave the
\* withdrawal-bearing assets in is the one found
SameEventInEveryOrder ==
    \A order \in sorted_orders(WithdrawalAssets) :
        surplus_walk(assets_df, monthly_surplus, order).years_until_zero_surplus
            = sustainability.years_until_zero_surplus

\* C29: in the surplus branch, whenever a zero-surplus event is found, its
\* time is >= the earliest depletion time and <= the largest finite
\* depletion_years among the withdrawal-bearing assets, and the triggering
\* asset's own depletion_years equals the event time; when several assets
\* share the same depletion_years the event time does not depend on the
\* order in which the assets are listed.
C29_EventTime ==
    EventFound => (EventAtTriggeringDepletion /\ SameEventInEveryOrder)

\* no withdrawal is so small against the running surplus that the
\* subtraction of line 133 rounds
ExactSubtractions ==
    \A i \in 1..Len(WithdrawalAssets) :
        /\ float_sub(monthly_surplus, WithdrawalAssets[i].Monthly_Value)
               = RSub(monthly_surplus, WithdrawalAssets[i].Monthly_Value)
        /\ \A j \in 1..Len(WithdrawalAssets) :
               LET left == RSub(monthly_surplus, WithdrawalAssets[i].Monthly_Value)
               IN  float_sub(left, WithdrawalAssets[j].Monthly_Value)
                       = RSub(left, WithdrawalAssets[j].Monthly_Value)

\* where the event time does not depend on the order: where the
\* subtractions are exact
SameEventWhereExact ==
    (EventFound /\ ExactSubtractions) => SameEventInEveryOrder

-----------------------------------------------------------------------------
(* Properties of the entry points, checked under SpecEntry.                 *)

=============================================================================
